---- MODULE Spec2Model ----
(***************************************************************************)
(* Model of the appointment backend: the OTP store and dispatcher          *)
(* (src/services/otpService.js) and the handlers of the server: the        *)
(* availability registry (time slots and dates), the appointments, the     *)
(* payment webhook and the OTP login routes.                               *)
(*                                                                         *)
(* JavaScript strings are modelled as sequences of one-character strings.  *)
(* A generated OTP is the decimal string of an integer in 100000..999999;  *)
(* it is modelled by that integer.                                         *)
(***************************************************************************)
EXTENDS Integers, Sequences, FiniteSets, Bags, TLC

VARIABLES
    otpStorage,   \* the Map of otpService.js: formatted phone -> {otp, expiresAt, attempts}
    now,          \* Date.now(), in milliseconds since otpService.js was loaded
    sendReq,      \* the bag of sendOTP calls in flight: their position and locals
    otpRes,       \* the value returned by the last sendOTP / verifyOTP call
    slots,        \* the rows of table available_time_slots
    nextSlotId,   \* its AUTO_INCREMENT counter
    slotRes,      \* the time-slot request just handled and its response, until it is sent
    slotReq,      \* the bag of POST /api/admin/available-time-slots requests between SELECT and INSERT
    dates,        \* the rows of table available_dates
    nextDateId,   \* its AUTO_INCREMENT counter
    dateRes,      \* the available-date request just handled and its response, until it is sent
    timeRes,      \* the last call of extractStartTime: its argument and the value returned
    tripRes,      \* the last appointment date sent, as it was stored and as it is read back
    appts,        \* the rows of table appointments
    nextApptId,   \* its AUTO_INCREMENT counter
    apptReq,      \* the bag of POST /api/user/appointments requests waiting for their INSERT
    apptRes,      \* the appointment request just answered and its response, until it is sent
    users,        \* the rows of table users
    authRes,      \* the auth request just handled and its response, until it is sent
    sendRoute,    \* the POST /api/auth/send-otp request being handled: its position and locals
    assoc,        \* the committed rows of table service_items_category_property_types
    txReq,        \* the bag of property-type replacements in flight: position, locals, transaction
    checkedOut,   \* the connections checked out of the pool
    catRes        \* the replacement just answered and its response, until it is sent

otpVars == <<otpStorage, now, sendReq, otpRes>>

slotVars == <<slots, nextSlotId, slotRes, slotReq>>

dateVars == <<dates, nextDateId, dateRes>>

\* what the OTP service, the time-slot handlers, the available-date handlers
\* leave alone
apptVars == <<appts, nextApptId, apptReq, apptRes>>

authVars == <<users, authRes>>

routeVars == <<sendRoute>>

\* the state of the routes that stand apart from the handlers above
catalogVars == <<assoc, txReq, checkedOut, catRes>>

apartVars == <<routeVars, catalogVars>>

notOtpVars == <<slotVars, dateVars, timeRes, tripRes, apptVars, authVars, apartVars>>

\* what the time-slot handlers leave alone
otherThanSlots == <<otpVars, dateVars, timeRes, tripRes, apptVars, authVars, apartVars>>

\* what a time-slot request that runs from its start to its response leaves alone
notSlotVars == <<otherThanSlots, slotReq>>

notDateVars == <<otpVars, slotVars, timeRes, tripRes, apptVars, authVars, apartVars>>

notTimeVars == <<tripRes, otpVars, slotVars, dateVars, apptVars, authVars, apartVars>>

notTripVars == <<timeRes, otpVars, slotVars, dateVars, apptVars, authVars, apartVars>>

notApptVars == <<otpVars, slotVars, dateVars, timeRes, tripRes, authVars, apartVars>>

notAuthVars == <<slotVars, dateVars, timeRes, tripRes, apptVars, apartVars>>

\* what the routes that stand apart leave alone of the handlers above
notApartVars == <<slotVars, dateVars, timeRes, tripRes, apptVars, authVars>>

vars == <<otpVars, slotVars, dateVars, timeRes, tripRes, apptVars, authVars, apartVars>>

-----------------------------------------------------------------------------
(* Bounds of the model *)

MaxTicks == 4          \* the clock advances at most this many times
MaxSends == 2          \* sendOTP calls that can be in flight together
NumCodes == 2          \* how many of the 900000 codes generateOTP draws from
MaxSlotId == 2         \* ids the AUTO_INCREMENT counter of the time slots hands out
MaxDateId == 3         \* ids the AUTO_INCREMENT counter of the available dates hands out
MaxApptId == 2         \* ids the AUTO_INCREMENT counter of the appointments hands out
MaxCreates == 2        \* appointment requests that can wait for their INSERT together
MaxSlotCreates == 2    \* time-slot requests that can wait for their INSERT together
MaxTx == 2             \* property-type replacements that can be in flight together
MaxConnections == 3    \* connections of the pool (the program sets connectionLimit: 10)

-----------------------------------------------------------------------------
(* Program constants *)

TEST_MODE == FALSE
TEST_OTP == 123456
MAX_ATTEMPTS == 3
OTP_TTL == 5 * 60 * 1000
SWEEP_INTERVAL == 5 * 60 * 1000

\* The clock advances in steps of half the OTP lifetime, so that a call can
\* fall before, exactly on and after expiresAt.
TickMs == OTP_TTL \div 2

-----------------------------------------------------------------------------
(* Inputs *)

RawPhones == { <<"5">>, <<"+", "5">> }

\* generateOTP: Math.floor(100000 + Math.random() * 900000).toString()
generateOTP == { 100000 + i : i \in 0 .. (NumCodes - 1) }

\* The codes a caller submits: each generated code is a wrong code for an
\* entry that holds another one.
SubmittedCodes == generateOTP

Outcomes == {"ok", "reject"}      \* client.messages.create resolves or rejects

-----------------------------------------------------------------------------
(* otpService.js *)

startsWithPlus(s) == Len(s) > 0 /\ s[1] = "+"

formatPhone(phoneNumber) ==
    IF startsWithPlus(phoneNumber) THEN phoneNumber ELSE <<"+">> \o phoneNumber

MapHas(m, k) == k \in DOMAIN m

MapSet(m, k, v) == [x \in (DOMAIN m) \cup {k} |-> IF x = k THEN v ELSE m[x]]

MapDelete(m, k) == [x \in (DOMAIN m) \ {k} |-> m[x]]

EmptyMap == [x \in {} |-> 0]

NewEntry(otp, t) == [otp |-> otp, expiresAt |-> t + OTP_TTL, attempts |-> 0]

\* A call suspended at `await client.messages.create(...)` of one channel.
\* whatsappResult is kept while the SMS fallback is awaited.
AwaitReq(pc, formattedPhone, otp, wa) ==
    [pc |-> pc, formattedPhone |-> formattedPhone, otp |-> otp, whatsappResult |-> wa]

Suspend(calls, call) == calls (+) SetToBag({call})

Resume(calls, call) == calls (-) SetToBag({call})

NoResult == [op |-> "none", n |-> 0]

NoWhatsApp == [success |-> FALSE, message |-> "none"]

WhatsAppOk ==
    [success |-> TRUE, message |-> "WhatsApp OTP sent successfully", method |-> "whatsapp"]

WhatsAppFailed ==
    [success |-> FALSE, message |-> "Failed to send WhatsApp OTP", method |-> "whatsapp"]

SmsOk ==
    [success |-> TRUE, message |-> "SMS OTP sent successfully", method |-> "sms"]

SmsFailed ==
    [success |-> FALSE, message |-> "Failed to send SMS OTP", method |-> "sms"]

\* How a piece of code completes: it returns a value or it throws.
Returned(value) == [how |-> "return", value |-> value]

Thrown == [how |-> "throw"]

\* try { body } catch (error) { return onError }
TryCatch(body, onError) == IF body.how = "throw" THEN Returned(onError) ELSE body

\* await client.messages.create(...); return okValue
deliver(outcome, okValue) == IF outcome = "ok" THEN Returned(okValue) ELSE Thrown

\* sendWhatsAppOTP once its delivery has settled
sendWhatsAppOTP_result(outcome) == TryCatch(deliver(outcome, WhatsAppOk), WhatsAppFailed)

\* sendSMSOTP once its delivery has settled
sendSMSOTP_result(outcome) == TryCatch(deliver(outcome, SmsOk), SmsFailed)

SendOtpFailed == [success |-> FALSE, message |-> "Failed to send OTP"]

Flip(r) == 1 - r.n

\* How the last sendOTP call completed, as its caller sees it.
SendReturn(formattedPhone, completion) ==
    [op |-> "send", n |-> Flip(otpRes), formattedPhone |-> formattedPhone,
     how |-> completion.how,
     value |-> IF completion.how = "return" THEN completion.value ELSE SendOtpFailed]

\* What verifyOTP hands back; matched records whether the submitted code was the
\* stored one when the call started.
VerifyReturn(formattedPhone, matched, value) ==
    [op |-> "verify", n |-> Flip(otpRes), formattedPhone |-> formattedPhone,
     matched |-> matched, value |-> value]

\* Mutant: the expiry test made inclusive.
isExpired_inclusive(t, storedData) == t >= storedData.expiresAt

\* Date.now() > storedData.expiresAt
isExpired(t, storedData) == t > storedData.expiresAt

\* Mutant: the attempt limit off by one.
attemptsExceeded_offByOne(storedData) == storedData.attempts > MAX_ATTEMPTS

\* storedData.attempts >= 3
attemptsExceeded(storedData) == storedData.attempts >= MAX_ATTEMPTS

\* Mutant: the entry is kept after a successful verification.
consumeEntry_keep(m, formattedPhone) == m

\* otpStorage.delete(formattedPhone) after a successful verification
consumeEntry(m, formattedPhone) == MapDelete(m, formattedPhone)

\* storedData.attempts += 1; otpStorage.set(formattedPhone, storedData)
countAttempt(m, formattedPhone) ==
    MapSet(m, formattedPhone,
           [m[formattedPhone] EXCEPT !.attempts = m[formattedPhone].attempts + 1])

\* verifyOTP(phoneNumber, otp) called at time t on the Map m: the Map it
\* leaves and the value it returns.
verifyOTP(m, phoneNumber, otp, t) ==
    LET formattedPhone == formatPhone(phoneNumber) IN
    IF ~MapHas(m, formattedPhone)
    THEN [storage |-> m,
          value |-> [success |-> FALSE, message |-> "OTP not found or expired"]]
    ELSE LET storedData == m[formattedPhone] IN
         IF isExpired(t, storedData)
         THEN [storage |-> MapDelete(m, formattedPhone),
               value |-> [success |-> FALSE, message |-> "OTP has expired"]]
         ELSE IF attemptsExceeded(storedData)
         THEN [storage |-> MapDelete(m, formattedPhone),
               value |-> [success |-> FALSE,
                          message |-> "Maximum verification attempts exceeded"]]
         ELSE IF storedData.otp = otp
         THEN [storage |-> consumeEntry(m, formattedPhone),
               value |-> [success |-> TRUE, message |-> "OTP verified successfully"]]
         ELSE LET counted == countAttempt(m, formattedPhone) IN
              [storage |-> counted,
               value |-> [success |-> FALSE, message |-> "Invalid OTP",
                          remaining |-> 3 - counted[formattedPhone].attempts]]

\* Mutant: the sweep also removes the entries that expire at this instant.
cleanExpiredOTPs_inclusive(m, t) ==
    LET keep == { k \in DOMAIN m : ~(t >= m[k].expiresAt) } IN [k \in keep |-> m[k]]

\* cleanExpiredOTPs at time t
cleanExpiredOTPs(m, t) ==
    LET keep == { k \in DOMAIN m : ~(t > m[k].expiresAt) } IN [k \in keep |-> m[k]]

\* Mutant: a re-send keeps the attempts count of the entry it replaces.
storeOTP_keepAttempts(m, phoneNumber, otp, t) ==
    LET k == formatPhone(phoneNumber) IN
    MapSet(m, k, [NewEntry(otp, t) EXCEPT
                    !.attempts = IF MapHas(m, k) THEN m[k].attempts ELSE 0])

\* Mutant: the entry is written only when the phone has none.
storeOTP_ifAbsent(m, phoneNumber, otp, t) ==
    IF MapHas(m, formatPhone(phoneNumber)) THEN m
    ELSE MapSet(m, formatPhone(phoneNumber), NewEntry(otp, t))

\* otpStorage.set(formattedPhone, {otp, expiresAt, attempts: 0}) of a channel attempt
storeOTP(m, phoneNumber, otp, t) == MapSet(m, formatPhone(phoneNumber), NewEntry(otp, t))

\* Mutant: the SMS channel is tried whatever the WhatsApp result.
useFallback_always(whatsappResult) == TRUE

\* sendOTP after `await sendWhatsAppOTP`: return its result, or go on to SMS
useFallback(whatsappResult) == ~whatsappResult.success

\* sendOTP's value when the SMS fallback has settled
sendOTP_afterSms(whatsappResult, smsResult) ==
    IF smsResult.success
    THEN [success |-> TRUE, message |-> "SMS OTP sent successfully (SMS fallback used)",
          method |-> "sms", fallbackUsed |-> TRUE,
          primaryMethod |-> "whatsapp", fallbackMethod |-> "sms"]
    ELSE [success |-> FALSE, message |-> "Failed to send OTP via WhatsApp and SMS",
          whatsappError |-> whatsappResult.message, smsError |-> smsResult.message]

-----------------------------------------------------------------------------
(* Actions of the OTP service *)

\* sendOTP(phone) up to its first suspension: the await inside sendWhatsAppOTP
\* (or, in test mode, up to its return).
SendStart(phone) ==
    /\ BagCardinality(sendReq) < MaxSends
    /\ LET formattedPhone == formatPhone(phone) IN
       IF TEST_MODE
       THEN /\ otpStorage' = storeOTP(otpStorage, formattedPhone, TEST_OTP, now)
            /\ otpRes' = SendReturn(formattedPhone, Returned([success |-> TRUE,
                              message |-> "OTP sent successfully (Test Mode)",
                              testMode |-> TRUE, testOtp |-> TEST_OTP]))
            /\ UNCHANGED sendReq
       ELSE \E otp \in generateOTP :
            /\ otpStorage' = storeOTP(otpStorage, formattedPhone, otp, now)
            /\ sendReq' = Suspend(sendReq,
                                  AwaitReq("whatsapp", formattedPhone, otp, NoWhatsApp))
            /\ UNCHANGED otpRes
    /\ UNCHANGED <<now, notOtpVars>>

\* The WhatsApp delivery of the call settles: sendWhatsAppOTP returns, and
\* sendOTP either returns its result or runs sendSMSOTP up to its await.
WhatsAppDone(call, outcome) ==
    /\ BagIn(call, sendReq)
    /\ call.pc = "whatsapp"
    /\ LET settled == sendWhatsAppOTP_result(outcome)
           whatsappResult == settled.value
           formattedPhone == call.formattedPhone
       IN  IF settled.how = "throw"
           THEN /\ otpRes' = SendReturn(formattedPhone, TryCatch(settled, SendOtpFailed))
                /\ sendReq' = Resume(sendReq, call)
                /\ UNCHANGED otpStorage
           ELSE IF useFallback(whatsappResult)
           THEN \E otp \in generateOTP :
                /\ otpStorage' = storeOTP(otpStorage, formattedPhone, otp, now)
                /\ sendReq' = Suspend(Resume(sendReq, call),
                                      AwaitReq("sms", formattedPhone, otp, whatsappResult))
                /\ UNCHANGED otpRes
           ELSE /\ otpRes' = SendReturn(formattedPhone, Returned(whatsappResult))
                /\ sendReq' = Resume(sendReq, call)
                /\ UNCHANGED otpStorage
    /\ UNCHANGED <<now, notOtpVars>>

\* The SMS delivery of the call settles: sendSMSOTP returns and sendOTP returns.
SmsDone(call, outcome) ==
    /\ BagIn(call, sendReq)
    /\ call.pc = "sms"
    /\ LET settled == sendSMSOTP_result(outcome) IN
       otpRes' = SendReturn(call.formattedPhone,
                    TryCatch(IF settled.how = "throw" THEN settled
                             ELSE Returned(sendOTP_afterSms(call.whatsappResult,
                                                            settled.value)),
                             SendOtpFailed))
    /\ sendReq' = Resume(sendReq, call)
    /\ UNCHANGED <<otpStorage, now, notOtpVars>>

\* verifyOTP(phone, code): synchronous, one step.
Verify(phone, code) ==
    /\ LET got == verifyOTP(otpStorage, phone, code, now)
           key == formatPhone(phone)
       IN  /\ otpStorage' = got.storage
           /\ otpRes' = VerifyReturn(key,
                           MapHas(otpStorage, key) /\ otpStorage[key].otp = code,
                           got.value)
    /\ UNCHANGED <<now, sendReq, notOtpVars>>

\* setInterval(cleanExpiredOTPs, 5 * 60 * 1000): the callback runs when a
\* whole number of intervals has passed since the module was loaded.
Sweep ==
    /\ now > 0
    /\ now % SWEEP_INTERVAL = 0
    /\ otpStorage' = cleanExpiredOTPs(otpStorage, now)
    /\ UNCHANGED <<now, sendReq, otpRes, notOtpVars>>

\* Time passes.
Tick ==
    /\ now + TickMs <= MaxTicks * TickMs
    /\ now' = now + TickMs
    /\ UNCHANGED <<otpStorage, sendReq, otpRes, notOtpVars>>

\* Time passes while the interval timer keeps running: the clock does not go
\* past a multiple of the interval before the callback has run at it.
TickSwept ==
    /\ ~(now > 0 /\ now % SWEEP_INTERVAL = 0 /\ cleanExpiredOTPs(otpStorage, now) # otpStorage)
    /\ Tick

InitOtp ==
    /\ otpStorage = EmptyMap
    /\ now = 0
    /\ sendReq = EmptyBag
    /\ otpRes = NoResult

Calls == BagToSet(sendReq)

NextOtp ==
    \/ \E phone \in RawPhones : SendStart(phone)
    \/ \E call \in Calls, outcome \in Outcomes : WhatsAppDone(call, outcome)
    \/ \E call \in Calls, outcome \in Outcomes : SmsDone(call, outcome)
    \/ \E phone \in RawPhones, code \in SubmittedCodes : Verify(phone, code)
    \/ Sweep
    \/ Tick

\* The phones of the callers while the sweep is watched: two keys of the store.
SweepPhones == { <<"+", "5">>, <<"6">> }

\* The OTP service with its timer running on time, while no verifyOTP call is
\* made.
NextSweep ==
    \/ \E phone \in SweepPhones : SendStart(phone)
    \/ \E call \in Calls, outcome \in Outcomes : WhatsAppDone(call, outcome)
    \/ \E call \in Calls, outcome \in Outcomes : SmsDone(call, outcome)
    \/ Sweep
    \/ TickSwept


------------------------------------------------------------------------

-----------------------------------------------------------------------------
(* JavaScript and SQL values of the time-slot handlers *)

Str(chars) == [t |-> "string", s |-> chars]

Num(n) == [t |-> "number", n |-> n]

Bool(b) == [t |-> "boolean", b |-> b]

Null == [t |-> "null"]

Undefined == [t |-> "undefined"]

\* !v is false
Truthy(v) ==
    CASE v.t = "string" -> Len(v.s) > 0
      [] v.t = "number" -> v.n # 0
      [] v.t = "boolean" -> v.b
      [] v.t = "object" -> TRUE
      [] OTHER -> FALSE

\* a || b
OrElse(a, b) == IF Truthy(a) THEN a ELSE b

DigitChars == <<"0", "1", "2", "3", "4", "5", "6", "7", "8", "9">>

IsDigit(c) == \E i \in 1 .. 10 : DigitChars[i] = c

DigitVal(c) == (CHOOSE i \in 1 .. 10 : DigitChars[i] = c) - 1

\* The UTF-16 code unit of a character of a time string.
CharCode(c) == IF c = ":" THEN 58 ELSE 48 + DigitVal(c)

\* a < b on JavaScript strings: by code units, a proper prefix first.
StrLess(a, b) ==
    LET n == IF Len(a) < Len(b) THEN Len(a) ELSE Len(b)
        diff == { i \in 1 .. n : a[i] # b[i] }
    IN  IF diff = {}
        THEN Len(a) < Len(b)
        ELSE LET i == CHOOSE j \in diff : \A k \in diff : j <= k
             IN  CharCode(a[i]) < CharCode(b[i])

\* /^([01]?[0-9]|2[0-3]):[0-5][0-9]$/.test(s)
timeRegex(s) ==
    LET n == Len(s) IN
    /\ n \in {4, 5}
    /\ IF n = 4
       THEN IsDigit(s[1])
       ELSE \/ s[1] \in {"0", "1"} /\ IsDigit(s[2])
            \/ s[1] = "2" /\ s[2] \in {"0", "1", "2", "3"}
    /\ s[n - 2] = ":"
    /\ s[n - 1] \in {"0", "1", "2", "3", "4", "5"}
    /\ IsDigit(s[n])

\* MySQL's conversion of 'H:MM', 'HH:MM' or 'HH:MM:SS' to a TIME, here the
\* minutes since midnight (the seconds of every time of the model are 0).
ToTime(s) ==
    IF s[2] = ":"
    THEN DigitVal(s[1]) * 60 + DigitVal(s[3]) * 10 + DigitVal(s[4])
    ELSE (DigitVal(s[1]) * 10 + DigitVal(s[2])) * 60 + DigitVal(s[4]) * 10 + DigitVal(s[5])

\* A TIME column as the driver hands it to JavaScript: 'HH:MM:SS'.
FromTime(t) ==
    LET h == t \div 60
        m == t % 60
    IN  << DigitChars[(h \div 10) + 1], DigitChars[(h % 10) + 1], ":",
           DigitChars[(m \div 10) + 1], DigitChars[(m % 10) + 1], ":", "0", "0" >>

\* service_category_id = ? OR (service_category_id IS NULL AND ? IS NULL)
SameCategoryScope(column, param) ==
    \/ column.t # "null" /\ param.t # "null" /\ column = param
    \/ column.t = "null" /\ param.t = "null"

\* Mutant: an interval that only touches the new one counts as overlapping.
SqlOverlap_touching(start_time, end_time, newStart, newEnd) ==
    \/ start_time <= newStart /\ end_time >= newStart
    \/ start_time <= newEnd /\ end_time >= newEnd
    \/ start_time >= newStart /\ end_time <= newEnd

\* (start_time <= ? AND end_time > ?) OR (start_time < ? AND end_time >= ?) OR
\* (start_time >= ? AND end_time <= ?)
\* with parameters [newStart, newStart, newEnd, newEnd, newStart, newEnd]
SqlOverlap(start_time, end_time, newStart, newEnd) ==
    \/ start_time <= newStart /\ end_time > newStart
    \/ start_time < newEnd /\ end_time >= newEnd
    \/ start_time >= newStart /\ end_time <= newEnd

\* UNIQUE KEY unique_time_slot (date, start_time, end_time), for a row that is
\* to be stored next to the rows `others`
UniqueTimeSlotOk(others, row) ==
    \A o \in others :
        ~(o.date = row.date /\ o.start_time = row.start_time /\ o.end_time = row.end_time)

\* The driver refuses to bind undefined ("Bind parameters must not contain
\* undefined"): pool.execute throws before anything is sent.
BindOk(params) == \A i \in 1 .. Len(params) : params[i].t # "undefined"

\* res.status(status).json({ message }) for the request (op, id, body)
Response(op, id, body, status, message) ==
    [op |-> op, id |-> id, body |-> body, status |-> status, message |-> message]

NoRequest == [op |-> "none"]

-----------------------------------------------------------------------------
(* Inputs of the time-slot handlers *)

TimeStrings ==
    { <<"0", "9", ":", "0", "0">>, <<"0", "9", ":", "3", "0">>,
      <<"1", "0", ":", "0", "0">>, <<"9", ":", "3", "0">> }

DateInputs == { "2025-03-10", "2025-03-11" }

CategoryInputs == { Null, Num(1) }

\* Request bodies of POST /api/admin/available-time-slots: every field given,
\* and bodies that leave a field out.
CreateBodies ==
    [ start_time : { Str(x) : x \in TimeStrings },
      end_time : { Str(x) : x \in TimeStrings },
      is_available : { Bool(TRUE), Bool(FALSE) },
      extra_price : { Undefined },
      date : { Str(d) : d \in DateInputs },
      service_category_id : CategoryInputs ]

CreateBodiesLeavingOut ==
    LET full == [ start_time |-> Str(<<"0", "9", ":", "0", "0">>),
                  end_time |-> Str(<<"0", "9", ":", "3", "0">>),
                  is_available |-> Bool(TRUE), extra_price |-> Undefined,
                  date |-> Str("2025-03-10"), service_category_id |-> Null ]
    IN  { [full EXCEPT !.start_time = Undefined], [full EXCEPT !.end_time = Null],
          [full EXCEPT !.date = Undefined], [full EXCEPT !.is_available = Undefined],
          [full EXCEPT !.service_category_id = Undefined] }

\* Request bodies of PUT /api/admin/available-time-slots/:id.  A field that
\* is left out arrives as undefined, a field sent as JSON null as null.  The
\* bodies of the model leave extra_price alone.
UpdateBodies ==
    [ start_time : { Str(x) : x \in TimeStrings } \cup { Null },
      end_time : { Str(x) : x \in TimeStrings } \cup { Null },
      is_available : { Bool(TRUE), Bool(FALSE), Null },
      extra_price : { Null },
      service_category_id : CategoryInputs \cup { Undefined } ]

-----------------------------------------------------------------------------
(* The time-slot handlers *)

\* SELECT id FROM available_time_slots WHERE date = ? AND is_available = 1
\*   AND (category scope) AND (overlap)
createOverlapping(rows, date, category, start_time, end_time) ==
    { r \in rows :
        /\ r.date = date
        /\ r.is_available
        /\ SameCategoryScope(r.service_category_id, category)
        /\ SqlOverlap(r.start_time, r.end_time, ToTime(start_time), ToTime(end_time)) }

\* SELECT id FROM available_time_slots WHERE id != ? AND date = ?
\*   AND is_available = 1 AND (overlap)
updateOverlapping(rows, id, date, newStartTime, newEndTime) ==
    { r \in rows :
        /\ r.id # id
        /\ r.date = date
        /\ r.is_available
        /\ SqlOverlap(r.start_time, r.end_time, ToTime(newStartTime), ToTime(newEndTime)) }

\* start_time >= end_time, on the strings of the request
notAfter(start_time, end_time) == ~StrLess(start_time, end_time)

\* POST /api/admin/available-time-slots up to the result of its SELECT, run on
\* the rows of that moment: the request goes on to its INSERT, or is answered.
createTimeSlot_select(rows, body) ==
    LET rejected(status, message) == [pass |-> FALSE, status |-> status, message |-> message]
    IN
    IF ~Truthy(body.start_time) \/ ~Truthy(body.end_time) \/ ~Truthy(body.date)
    THEN rejected(400, "Start time, end time, and date are required")
    ELSE IF ~timeRegex(body.start_time.s) \/ ~timeRegex(body.end_time.s)
    THEN rejected(400, "Invalid time format. Use HH:MM format")
    ELSE IF notAfter(body.start_time.s, body.end_time.s)
    THEN rejected(400, "End time must be after start time")
    ELSE IF ~BindOk(<<body.date, body.service_category_id, body.start_time, body.end_time>>)
    THEN rejected(500, "Internal server error")
    ELSE IF createOverlapping(rows, body.date.s, body.service_category_id,
                              body.start_time.s, body.end_time.s) # {}
    THEN rejected(400, "Time slot overlaps with existing available slot")
    ELSE [pass |-> TRUE, status |-> 0, message |-> ""]

\* POST /api/admin/available-time-slots from its INSERT on, run on the rows of
\* that moment: the rows it leaves, the counter and the response.
createTimeSlot_insert(rows, nextId, body) ==
    LET unchanged(status, message) ==
            [rows |-> rows, nextId |-> nextId,
             res |-> Response("create", 0, body, status, message)]
        extra_price == IF body.extra_price.t = "undefined" THEN Num(0) ELSE body.extra_price
    IN
    IF ~BindOk(<<body.is_available, extra_price>>)
    THEN unchanged(500, "Internal server error")
    ELSE LET row == [id |-> nextId,
                     start_time |-> ToTime(body.start_time.s),
                     end_time |-> ToTime(body.end_time.s),
                     is_available |-> body.is_available.b,
                     extra_price |-> extra_price.n,
                     date |-> body.date.s,
                     service_category_id |-> body.service_category_id]
         IN  IF ~UniqueTimeSlotOk(rows, row)
             THEN unchanged(500, "Internal server error")
             ELSE [rows |-> rows \cup {row}, nextId |-> nextId + 1,
                   res |-> Response("create", nextId, body, 201,
                                    "Time slot created successfully")]

\* POST /api/admin/available-time-slots when no other request runs between
\* its SELECT and its INSERT.
createTimeSlot(rows, nextId, body) ==
    LET selected == createTimeSlot_select(rows, body) IN
    IF ~selected.pass
    THEN [rows |-> rows, nextId |-> nextId,
          res |-> Response("create", 0, body, selected.status, selected.message)]
    ELSE createTimeSlot_insert(rows, nextId, body)

\* COALESCE(?, column)
Coalesce(param, column) == IF param.t = "null" THEN column ELSE param

\* UPDATE available_time_slots SET start_time = COALESCE(?, start_time), ...,
\*   service_category_id = ? WHERE id = ?
updatedRow(row, body) ==
    [id |-> row.id,
     start_time |-> IF body.start_time.t = "null" THEN row.start_time
                    ELSE ToTime(body.start_time.s),
     end_time |-> IF body.end_time.t = "null" THEN row.end_time
                  ELSE ToTime(body.end_time.s),
     is_available |-> IF body.is_available.t = "null" THEN row.is_available
                      ELSE body.is_available.b,
     extra_price |-> IF body.extra_price.t = "null" THEN row.extra_price
                     ELSE body.extra_price.n,
     date |-> row.date,
     service_category_id |-> body.service_category_id]

\* PUT /api/admin/available-time-slots/:id: the rows it leaves and the response.
updateTimeSlot(rows, id, body) ==
    LET unchanged(status, message) ==
            [rows |-> rows, res |-> Response("update", id, body, status, message)]
        existing == { r \in rows : r.id = id }
    IN
    IF existing = {}
    THEN unchanged(404, "Time slot not found")
    ELSE
    LET currentSlot == CHOOSE r \in existing : TRUE
        newStartTime == OrElse(body.start_time, Str(FromTime(currentSlot.start_time)))
        newEndTime == OrElse(body.end_time, Str(FromTime(currentSlot.end_time)))
        checked == Truthy(body.start_time) \/ Truthy(body.end_time)
    IN
    IF checked /\ (~timeRegex(newStartTime.s) \/ ~timeRegex(newEndTime.s))
    THEN unchanged(400, "Invalid time format. Use HH:MM format")
    ELSE IF checked /\ notAfter(newStartTime.s, newEndTime.s)
    THEN unchanged(400, "End time must be after start time")
    ELSE IF checked /\ updateOverlapping(rows, id, currentSlot.date,
                                         newStartTime.s, newEndTime.s) # {}
    THEN unchanged(400, "Time slot overlaps with existing available slot")
    ELSE IF ~BindOk(<<body.start_time, body.end_time, body.is_available,
                      body.extra_price, body.service_category_id>>)
    THEN unchanged(500, "Internal server error")
    ELSE LET row == updatedRow(currentSlot, body) IN
         IF ~UniqueTimeSlotOk(rows \ {currentSlot}, row)
         THEN unchanged(500, "Internal server error")
         ELSE [rows |-> (rows \ {currentSlot}) \cup {row},
               res |-> Response("update", id, body, 200,
                                "Time slot updated successfully")]

\* DELETE /api/admin/available-time-slots/:id
deleteTimeSlot(rows, id) == { r \in rows : r.id # id }

-----------------------------------------------------------------------------
(* The public listings of the registry *)

\* A string compared with an INT column: its leading digits as a number, 0
\* when it has none (the ids of the model have one digit).
SqlInt(s) == IF Len(s) > 0 /\ IsDigit(s[1]) THEN DigitVal(s[1]) ELSE 0

NullWord == <<"n", "u", "l", "l">>

\* req.query.categoryId: left out, empty, 'null', or the id of a category
CategoryQueries == { Undefined, Str(<< >>), Str(NullWord), Str(<<"1">>) }

\* if (categoryId) { if (categoryId === 'null' || categoryId === '') ...
\*   IS NULL ... else ... service_category_id = ? }
categoryFilter(categoryId, column) ==
    IF Truthy(categoryId)
    THEN IF categoryId.s = NullWord \/ categoryId.s = << >>
         THEN column.t = "null"
         ELSE column.t = "number" /\ column.n = SqlInt(categoryId.s)
    ELSE TRUE

\* req.query.date, cut at its 'T's: a date, or a date and the rest of an ISO
\* date-time; or left out
DateQueries ==
    { Undefined }
        \cup { Str(<<d>>) : d \in DateInputs }
        \cup { Str(<<d, "T", "00:00:00.000Z">>) : d \in DateInputs }

\* date.includes('T') ? date.split('T')[0] : date
dateOnly(date) ==
    LET cuts == { i \in 1 .. Len(date) : date[i] = "T" } IN
    IF cuts # {}
    THEN SubSeq(date, 1, (CHOOSE i \in cuts : \A j \in cuts : i <= j) - 1)
    ELSE date

\* ORDER BY start_time ASC: every order of the rows that ascends by start_time
OrderByStartTime(rows) ==
    { seq \in [1 .. Cardinality(rows) -> rows] :
        /\ \A r \in rows : \E i \in 1 .. Cardinality(rows) : seq[i] = r
        /\ \A i \in 1 .. Cardinality(rows), j \in 1 .. Cardinality(rows) :
              i < j => seq[i].start_time <= seq[j].start_time }

\* GET /api/available-time-slots: the responses it can give
listAvailableTimeSlots(rows, query) ==
    IF ~Truthy(query.date)
    THEN { [op |-> "list", query |-> query, status |-> 400,
            message |-> "Date parameter is required", rows |-> << >>] }
    ELSE LET found == { r \in rows :
                          /\ <<r.date>> = dateOnly(query.date.s)
                          /\ r.is_available
                          /\ categoryFilter(query.categoryId, r.service_category_id) }
         IN  { [op |-> "list", query |-> query, status |-> 200, message |-> "",
                rows |-> seq] : seq \in OrderByStartTime(found) }

-----------------------------------------------------------------------------
(* Actions of the time-slot handlers; each request runs to completion before
   the next one starts *)

SlotIds == 1 .. MaxSlotId

CreateTimeSlot(body) ==
    /\ slotRes = NoRequest
    /\ LET done == createTimeSlot(slots, nextSlotId, body) IN
       /\ done.nextId <= MaxSlotId + 1
       /\ slots' = done.rows
       /\ nextSlotId' = done.nextId
       /\ slotRes' = done.res
    /\ UNCHANGED notSlotVars

UpdateTimeSlot(id, body) ==
    /\ slotRes = NoRequest
    /\ LET done == updateTimeSlot(slots, id, body) IN
       /\ slots' = done.rows
       /\ slotRes' = done.res
    /\ UNCHANGED <<nextSlotId, notSlotVars>>

DeleteTimeSlot(id) ==
    /\ slotRes = NoRequest
    /\ slots' = deleteTimeSlot(slots, id)
    /\ slotRes' = Response("delete", id, Null, 200, "Time slot deleted successfully")
    /\ UNCHANGED <<nextSlotId, notSlotVars>>

ListAvailableTimeSlots(date, categoryId) ==
    /\ slotRes = NoRequest
    /\ slotRes' \in listAvailableTimeSlots(slots, [date |-> date, categoryId |-> categoryId])
    /\ UNCHANGED <<slots, nextSlotId, notSlotVars>>

\* The response is sent; the next request can be handled.
SendResponse ==
    /\ slotRes # NoRequest
    /\ slotRes' = NoRequest
    /\ UNCHANGED <<slots, nextSlotId, notSlotVars>>

\* The table holds the slots of the dates of DateInputs.  The slots seeded at
\* the first start are on the date of that start, another day: no query, key
\* or update of the handlers relates rows of different dates.
InitSlots ==
    /\ slots = {}
    /\ nextSlotId = 1
    /\ slotRes = NoRequest
    /\ slotReq = EmptyBag

NextSlots ==
    \/ \E body \in CreateBodies \cup CreateBodiesLeavingOut : CreateTimeSlot(body)
    \/ \E id \in SlotIds, body \in UpdateBodies : UpdateTimeSlot(id, body)
    \/ \E id \in SlotIds : DeleteTimeSlot(id)
    \/ \E date \in DateQueries, categoryId \in CategoryQueries :
          ListAvailableTimeSlots(date, categoryId)
    \/ SendResponse

-----------------------------------------------------------------------------
(* Concurrent requests to POST /api/admin/available-time-slots: the handler
   awaits its SELECT and then its INSERT, and other requests run in between *)

\* The bodies of the concurrent requests: available slots of one date.
RaceBodies ==
    [ start_time : { Str(x) : x \in TimeStrings },
      end_time : { Str(x) : x \in TimeStrings },
      is_available : { Bool(TRUE) },
      extra_price : { Undefined },
      date : { Str("2025-03-10") },
      service_category_id : CategoryInputs ]

\* The request up to the result of its SELECT: it is answered, or it waits for
\* its INSERT.
CreateTimeSlotSelect(body) ==
    /\ BagCardinality(slotReq) < MaxSlotCreates
    /\ LET selected == createTimeSlot_select(slots, body) IN
       IF selected.pass
       THEN /\ slotReq' = slotReq (+) SetToBag({body})
            /\ UNCHANGED slotRes
       ELSE /\ slotRes = NoRequest
            /\ slotRes' = Response("create", 0, body, selected.status, selected.message)
            /\ UNCHANGED slotReq
    /\ UNCHANGED <<slots, nextSlotId, otherThanSlots>>

\* The INSERT of a waiting request and its response.
CreateTimeSlotInsert(body) ==
    /\ BagIn(body, slotReq)
    /\ slotRes = NoRequest
    /\ LET done == createTimeSlot_insert(slots, nextSlotId, body) IN
       /\ done.nextId <= MaxSlotId + 1
       /\ slots' = done.rows
       /\ nextSlotId' = done.nextId
       /\ slotRes' = done.res
    /\ slotReq' = slotReq (-) SetToBag({body})
    /\ UNCHANGED otherThanSlots

NextSlotRace ==
    \/ \E body \in RaceBodies : CreateTimeSlotSelect(body)
    \/ \E body \in BagToSet(slotReq) : CreateTimeSlotInsert(body)
    \/ SendResponse

-----------------------------------------------------------------------------
(* The available dates *)

\* The days of the model, in calendar order; the server was first started on
\* the second, a Saturday, and CURDATE() stays that day.
Calendar == << "2025-03-07", "2025-03-08", "2025-03-09" >>

CURDATE == "2025-03-08"

Sundays == { "2025-03-09" }

DayIndex(d) == CHOOSE i \in 1 .. Len(Calendar) : Calendar[i] = d

\* date >= ? on DATE values
DateGeq(a, b) == DayIndex(a) >= DayIndex(b)

\* seedInitialData: the days from the first start on, Sundays left out, are
\* inserted as available dates of no category with max_appointments 10.
seededDates ==
    LET days == { i \in 1 .. Len(Calendar) :
                    DateGeq(Calendar[i], CURDATE) /\ Calendar[i] \notin Sundays }
        Rank(i) == Cardinality({ j \in days : j <= i })
    IN  { [id |-> Rank(i), date |-> Calendar[i], is_available |-> TRUE,
           max_appointments |-> 10, service_category_id |-> Null] : i \in days }

DateBodies ==
    [ date : { Str(Calendar[i]) : i \in 1 .. Len(Calendar) } \cup { Undefined },
      is_available : { Undefined, Bool(TRUE), Bool(FALSE) },
      max_appointments : { Undefined },
      service_category_id : { Undefined, Null, Num(1) } ]

DateResponse(op, id, body, status, message) ==
    [op |-> op, id |-> id, body |-> body, status |-> status, message |-> message]

\* POST /api/admin/available-dates.  Table available_dates has no unique key:
\* the INSERT never fails with ER_DUP_ENTRY.
createAvailableDate(rows, nextId, body) ==
    IF ~Truthy(body.date)
    THEN [rows |-> rows, nextId |-> nextId,
          res |-> DateResponse("create", 0, body, 400, "Date is required")]
    ELSE LET row == [id |-> nextId,
                     date |-> body.date.s,
                     is_available |-> IF body.is_available.t # "undefined"
                                      THEN body.is_available.b ELSE TRUE,
                     max_appointments |-> OrElse(body.max_appointments, Num(10)).n,
                     service_category_id |-> OrElse(body.service_category_id, Null)]
         IN  [rows |-> rows \cup {row}, nextId |-> nextId + 1,
              res |-> DateResponse("create", nextId, body, 201,
                                   "Available date added successfully")]

\* PUT /api/admin/available-dates/:id
updateAvailableDate(rows, id, body) ==
    LET setsNothing ==
            /\ ~Truthy(body.date)
            /\ body.is_available.t = "undefined"
            /\ body.max_appointments.t = "undefined"
            /\ body.service_category_id.t = "undefined"
        updated(r) ==
            [id |-> r.id,
             date |-> IF Truthy(body.date) THEN body.date.s ELSE r.date,
             is_available |-> IF body.is_available.t # "undefined"
                              THEN body.is_available.b ELSE r.is_available,
             max_appointments |-> IF body.max_appointments.t # "undefined"
                                  THEN body.max_appointments.n ELSE r.max_appointments,
             service_category_id |-> IF body.service_category_id.t # "undefined"
                                     THEN body.service_category_id
                                     ELSE r.service_category_id]
    IN  IF setsNothing
        THEN \* 'UPDATE available_dates SE WHERE id = ?' is no statement
             [rows |-> rows, res |-> DateResponse("update", id, body, 500, "Server error")]
        ELSE [rows |-> { IF r.id = id THEN updated(r) ELSE r : r \in rows },
              res |-> DateResponse("update", id, body, 200,
                                   "Available date updated successfully")]

\* DELETE /api/admin/available-dates/:id
deleteAvailableDate(rows, id) == { r \in rows : r.id # id }

\* ORDER BY ad.date ASC: every order of the rows that ascends by date
OrderByDate(rows) ==
    { seq \in [1 .. Cardinality(rows) -> rows] :
        /\ \A r \in rows : \E i \in 1 .. Cardinality(rows) : seq[i] = r
        /\ \A i \in 1 .. Cardinality(rows), j \in 1 .. Cardinality(rows) :
              i < j => DateGeq(seq[j].date, seq[i].date) }

\* GET /api/available-dates: the responses it can give
listAvailableDates(rows, query) ==
    LET found == { r \in rows :
                     /\ r.is_available
                     /\ DateGeq(r.date, CURDATE)
                     /\ categoryFilter(query.categoryId, r.service_category_id) }
    IN  { [op |-> "list", query |-> query, status |-> 200, message |-> "",
           rows |-> seq] : seq \in OrderByDate(found) }

DateIds == 1 .. MaxDateId

CreateAvailableDate(body) ==
    /\ dateRes = NoRequest
    /\ LET done == createAvailableDate(dates, nextDateId, body) IN
       /\ done.nextId <= MaxDateId + 1
       /\ dates' = done.rows
       /\ nextDateId' = done.nextId
       /\ dateRes' = done.res
    /\ UNCHANGED notDateVars

UpdateAvailableDate(id, body) ==
    /\ dateRes = NoRequest
    /\ LET done == updateAvailableDate(dates, id, body) IN
       /\ dates' = done.rows
       /\ dateRes' = done.res
    /\ UNCHANGED <<nextDateId, notDateVars>>

DeleteAvailableDate(id) ==
    /\ dateRes = NoRequest
    /\ dates' = deleteAvailableDate(dates, id)
    /\ dateRes' = DateResponse("delete", id, Null, 200, "Available date deleted successfully")
    /\ UNCHANGED <<nextDateId, notDateVars>>

ListAvailableDates(categoryId) ==
    /\ dateRes = NoRequest
    /\ dateRes' \in listAvailableDates(dates, [categoryId |-> categoryId])
    /\ UNCHANGED <<dates, nextDateId, notDateVars>>

SendDateResponse ==
    /\ dateRes # NoRequest
    /\ dateRes' = NoRequest
    /\ UNCHANGED <<dates, nextDateId, notDateVars>>

InitDates ==
    /\ dates = seededDates
    /\ nextDateId = Cardinality(seededDates) + 1
    /\ dateRes = NoRequest

NextDates ==
    \/ \E body \in DateBodies : CreateAvailableDate(body)
    \/ \E id \in DateIds, body \in DateBodies : UpdateAvailableDate(id, body)
    \/ \E id \in DateIds : DeleteAvailableDate(id)
    \/ \E categoryId \in CategoryQueries : ListAvailableDates(categoryId)
    \/ SendDateResponse

-----------------------------------------------------------------------------
(* extractStartTime of POST /api/user/appointments *)

\* The first index at which sep occurs in s, 0 when it does not.
IndexOf(s, sep) ==
    LET at == { i \in 1 .. (Len(s) - Len(sep) + 1) : SubSeq(s, i, i + Len(sep) - 1) = sep }
    IN  IF at = {} THEN 0 ELSE CHOOSE i \in at : \A j \in at : i <= j

\* s.split(sep), for a non-empty sep
RECURSIVE Split(_, _)
Split(s, sep) ==
    LET i == IndexOf(s, sep) IN
    IF i = 0 THEN << s >>
    ELSE << SubSeq(s, 1, i - 1) >> \o Split(SubSeq(s, i + Len(sep), Len(s)), sep)

\* s.trim()
RECURSIVE Trim(_)
Trim(s) ==
    IF Len(s) > 0 /\ s[1] = " " THEN Trim(Tail(s))
    ELSE IF Len(s) > 0 /\ s[Len(s)] = " " THEN Trim(SubSeq(s, 1, Len(s) - 1))
    ELSE s

\* /^\d{2}:\d{2}(:\d{2})?$/
canonicalTime(s) ==
    /\ Len(s) \in {5, 8}
    /\ IsDigit(s[1]) /\ IsDigit(s[2]) /\ s[3] = ":" /\ IsDigit(s[4]) /\ IsDigit(s[5])
    /\ Len(s) = 8 => (s[6] = ":" /\ IsDigit(s[7]) /\ IsDigit(s[8]))

NaN == -1

\* parseInt(s, 10) of a string without sign or leading blanks: the number its
\* leading digits write, NaN when it starts with no digit
RECURSIVE DigitsValue(_, _)
DigitsValue(s, acc) ==
    IF Len(s) > 0 /\ IsDigit(s[1])
    THEN DigitsValue(Tail(s), acc * 10 + DigitVal(s[1]))
    ELSE acc

parseInt(s) == IF Len(s) > 0 /\ IsDigit(s[1]) THEN DigitsValue(s, 0) ELSE NaN

\* n.toString() of a number that is NaN or a natural number
RECURSIVE NumberToString(_)
NumberToString(n) ==
    IF n = NaN THEN <<"N", "a", "N">>
    ELSE IF n < 10 THEN << DigitChars[n + 1] >>
    ELSE NumberToString(n \div 10) \o << DigitChars[(n % 10) + 1] >>

\* s.padStart(2, '0')
padStart2(s) ==
    IF Len(s) = 0 THEN <<"0", "0">> ELSE IF Len(s) = 1 THEN <<"0">> \o s ELSE s

\* `${v}` of a string or of undefined
Interpolated(pieces, i) ==
    IF i <= Len(pieces) THEN pieces[i]
    ELSE <<"u", "n", "d", "e", "f", "i", "n", "e", "d">>

\* Mutant: 12 PM is taken for an ordinary afternoon hour.
midnightHours_keep12(hours) == hours

\* if (hours === '12') hours = '00'
midnightHours(hours) == IF hours = <<"1", "2">> THEN <<"0", "0">> ELSE hours

convertTo24Hour(time12h) ==
    LET parts == Split(Trim(time12h), <<" ">>)
        time == parts[1]
        hm == Split(time, <<":">>)
        hours == midnightHours(hm[1])
        hours24 == IF Len(parts) >= 2 /\ parts[2] = <<"P", "M">>
                   THEN NumberToString(IF parseInt(hours) = NaN THEN NaN
                                       ELSE parseInt(hours) + 12)
                   ELSE hours
    IN  padStart2(hours24) \o <<":">> \o Interpolated(hm, 2) \o <<":", "0", "0">>

\* extractStartTime(timeInput), timeInput a string, null or undefined
extractStartTime(timeInput) ==
    IF ~Truthy(timeInput) THEN timeInput
    ELSE IF canonicalTime(timeInput.s) THEN timeInput
    ELSE Str(convertTo24Hour(Split(timeInput.s, <<" ", "-", " ">>)[1]))

\* The minutes and hours of a clock, written with two digits
TwoDigits(n) == << DigitChars[(n \div 10) + 1], DigitChars[(n % 10) + 1] >>

ClockHours == 1 .. 12

ClockMinutes == 0 .. 59

Modifiers == { <<"A", "M">>, <<"P", "M">> }

\* 'h:mm AM' as the booking page writes it
DisplayTime(h, m, modifier) ==
    NumberToString(h) \o <<":">> \o TwoDigits(m) \o <<" ">> \o modifier

\* 'h:mm AM - h:mm AM', the range ending half an hour or so later
DisplayRanges ==
    { DisplayTime(h, m, modifier) \o <<" ", "-", " ">> \o DisplayTime(h, (m + 30) % 60, modifier) :
        h \in ClockHours, m \in ClockMinutes, modifier \in Modifiers }

CanonicalTimes ==
    { TwoDigits(h) \o <<":">> \o TwoDigits(m) : h \in {0, 9, 14, 23}, m \in {0, 30} }
        \cup { TwoDigits(h) \o <<":">> \o TwoDigits(m) \o <<":">> \o TwoDigits(sec) :
                 h \in {0, 9, 14, 23}, m \in {0, 30}, sec \in {0, 59} }

\* what the page does not send: a bare time, a range without minutes
OtherTimes == { <<"2", ":", "0", "0", " ", "P", "M">>, <<"2", " ", "P", "M", " ", "-", " ", "3", " ", "P", "M">> }

TimeInputs ==
    { Undefined, Null, Str(<< >>) }
        \cup { Str(s) : s \in DisplayRanges \cup CanonicalTimes \cup OtherTimes }

\* One call at a time: the handler uses the value before it is called again.
ExtractStartTime(timeInput) ==
    /\ ~timeRes.called
    /\ timeRes' = [called |-> TRUE, input |-> timeInput, output |-> extractStartTime(timeInput)]
    /\ UNCHANGED notTimeVars

NoCall == [called |-> FALSE, input |-> Undefined, output |-> Undefined]

TimeUsed ==
    /\ timeRes.called
    /\ timeRes' = NoCall
    /\ UNCHANGED notTimeVars

InitTime == timeRes = NoCall

NextTime ==
    \/ \E timeInput \in TimeInputs : ExtractStartTime(timeInput)
    \/ TimeUsed

-----------------------------------------------------------------------------
(* The appointments *)

\* ENUM('pending', 'confirmed', 'in-progress', 'completed', 'cancelled')
validStatuses == { "pending", "confirmed", "in-progress", "completed", "cancelled" }

\* Mutant: the INSERT takes any string for the status.
EnumOk_anyString(status) == status.t = "string"

\* The server runs in strict SQL mode (the default of MySQL): a value that is
\* not of the ENUM makes the statement fail, nothing is stored.
EnumOk(status) == status.t = "string" /\ status.s \in validStatuses

\* req.user.id of the authenticated caller
Callers == { 1, 2 }

\* the callers that book
Bookers == { 1 }

Obj(fields) == [t |-> "object", o |-> fields]

TwoPm == <<"1", "4", ":", "0", "0", ":", "0", "0">>

ThreePm == <<"1", "5", ":", "0", "0", ":", "0", "0">>

TwoPmRange ==
    <<"2", ":", "0", "0", " ", "P", "M", " ", "-", " ", "2", ":", "3", "0", " ", "P", "M">>

\* new Date(appointment_date), then toISOString().split('T')[0]: a calendar
\* day YYYY-MM-DD is read as the start of that day in UTC and written back as
\* that day; words that are no date give an invalid Date.
InvalidDate == "Invalid Date"

formattedDate(appointment_date) ==
    IF appointment_date \in DateInputs THEN appointment_date ELSE InvalidDate

\* The bodies of POST /api/user/appointments: everything given, with a status
\* or not, with the time as a range or not; or some required fields left out;
\* or a date that is none.
Given ==
    [ service |-> Str("deep-cleaning"), appointment_date |-> Str("2025-03-10"),
      appointment_time |-> Str(TwoPm), location |-> Obj("Dubai Marina"),
      price |-> Num(250), status |-> Undefined ]

AppointmentBodies ==
    { [Given EXCEPT !.status = st] :
        st \in { Undefined, Str("completed"), Str("bogus") } }
      \cup { [Given EXCEPT !.appointment_time = Str(TwoPmRange)] }
      \cup { [Given EXCEPT !.appointment_date = Str("someday")] }
      \cup { [ service |-> IF "service" \in left THEN Undefined ELSE Given.service,
               appointment_date |-> IF "appointment_date" \in left THEN Undefined
                                    ELSE Given.appointment_date,
               appointment_time |-> IF "appointment_time" \in left THEN Undefined
                                    ELSE Given.appointment_time,
               location |-> IF "location" \in left THEN Undefined ELSE Given.location,
               price |-> IF "price" \in left THEN Undefined ELSE Given.price,
               status |-> Undefined ] :
             left \in SUBSET { "service", "appointment_date", "appointment_time",
                               "location", "price" } }

ApptResponse(op, user, id, body, status, message) ==
    [op |-> op, user |-> user, id |-> id, body |-> body, status |-> status,
     message |-> message]

\* Mutant: a missing price is taken for a free service.
requiredGiven_priceOptional(body) ==
    /\ Truthy(body.service) /\ Truthy(body.appointment_date)
    /\ Truthy(body.appointment_time) /\ Truthy(body.location)

\* !service || !appointment_date || !appointment_time || !location || !price
requiredGiven(body) ==
    /\ Truthy(body.service) /\ Truthy(body.appointment_date)
    /\ Truthy(body.appointment_time) /\ Truthy(body.location) /\ Truthy(body.price)

\* POST /api/user/appointments up to its INSERT: the response when the body
\* is refused, else the parameters of the INSERT.
createAppointment_validate(user, body) ==
    LET formattedTime == extractStartTime(body.appointment_time) IN
    IF ~requiredGiven(body)
    THEN [ok |-> FALSE,
          res |-> ApptResponse("create", user, 0, body, 400,
                               "All required fields must be provided")]
    ELSE IF formattedDate(body.appointment_date.s) = InvalidDate
    THEN [ok |-> FALSE,
          res |-> ApptResponse("create", user, 0, body, 400,
                               "Invalid date format. Please provide date in YYYY-MM-DD format")]
    ELSE [ok |-> TRUE,
          call |-> [user |-> user, body |-> body,
                    service |-> body.service,
                    appointment_date |-> formattedDate(body.appointment_date.s),
                    appointment_time |-> formattedTime.s,
                    location |-> body.location,
                    price |-> body.price,
                    status |-> OrElse(body.status, Str("pending"))]]

\* Mutant: a second appointment at the date and time of a stored one is refused.
createAppointment_insert_oncePerTime(rows, nextId, call) ==
    IF \/ ~BindOk(<<call.service, call.location, call.price, call.status>>)
       \/ ~EnumOk(call.status)
       \/ \E r \in rows : /\ r.appointment_date = call.appointment_date
                           /\ r.appointment_time = call.appointment_time
    THEN [rows |-> rows, nextId |-> nextId,
          res |-> ApptResponse("create", call.user, 0, call.body, 409,
                               "This appointment conflicts with an existing booking.")]
    ELSE [rows |-> rows \cup { [id |-> nextId, user_id |-> call.user,
                                service |-> call.service,
                                appointment_date |-> call.appointment_date,
                                appointment_time |-> call.appointment_time,
                                location |-> call.location, price |-> call.price,
                                status |-> call.status.s] },
          nextId |-> nextId + 1,
          res |-> ApptResponse("create", call.user, nextId, call.body, 201,
                               "Appointment created successfully")]

\* The INSERT of POST /api/user/appointments and the response after it.
createAppointment_insert(rows, nextId, call) ==
    IF ~BindOk(<<call.service, call.location, call.price, call.status>>)
       \/ ~EnumOk(call.status)
    THEN [rows |-> rows, nextId |-> nextId,
          res |-> ApptResponse("create", call.user, 0, call.body, 500,
                               "Server error during appointment creation")]
    ELSE [rows |-> rows \cup { [id |-> nextId, user_id |-> call.user,
                                service |-> call.service,
                                appointment_date |-> call.appointment_date,
                                appointment_time |-> call.appointment_time,
                                location |-> call.location, price |-> call.price,
                                status |-> call.status.s] },
          nextId |-> nextId + 1,
          res |-> ApptResponse("create", call.user, nextId, call.body, 201,
                               "Appointment created successfully")]

PatchBodies ==
    [ status : { Undefined, Str("cancelled"), Str("bogus") },
      appointment_date : { Undefined, Str("2025-03-11") },
      appointment_time : { Undefined, Str(ThreePm) } ]

\* Mutant: the UPDATE matches the id alone.
ownedBy_anyone(r, user) == TRUE

\* ... AND user_id = ?
ownedBy(r, user) == r.user_id = user

\* PUT /api/user/appointments/:id
updateAppointment(rows, id, user, body) ==
    LET unchanged(status, message) ==
            [rows |-> rows, res |-> ApptResponse("update", user, id, body, status, message)]
        patched(r) ==
            [r EXCEPT !.status = IF Truthy(body.status) THEN body.status.s ELSE @,
                      !.appointment_date = IF Truthy(body.appointment_date)
                                           THEN body.appointment_date.s ELSE @,
                      !.appointment_time = IF Truthy(body.appointment_time)
                                           THEN body.appointment_time.s ELSE @]
    IN
    IF { r \in rows : r.id = id /\ ownedBy(r, user) } = {}
    THEN unchanged(404, "Appointment not found or not authorized")
    ELSE IF ~Truthy(body.status) /\ ~Truthy(body.appointment_date)
            /\ ~Truthy(body.appointment_time)
    THEN \* 'UPDATE appointments SE WHERE id = ? AND user_id = ?' is no statement
         unchanged(500, "Server error")
    ELSE IF Truthy(body.status) /\ ~EnumOk(body.status)
    THEN unchanged(500, "Server error")
    ELSE [rows |-> { IF r.id = id /\ ownedBy(r, user) THEN patched(r) ELSE r : r \in rows },
          res |-> ApptResponse("update", user, id, body, 200,
                               "Appointment updated successfully")]

StatusBodies == { Undefined, Str("bogus") } \cup { Str(st) : st \in validStatuses }

\* Mutant: any status that is given is written.
includesStatus_any(status) == TRUE

\* validStatuses.includes(status)
includesStatus(status) == status.s \in validStatuses

\* PUT /api/admin/appointments/:id/status
setStatus(rows, id, status) ==
    LET unchanged(code, message) ==
            [rows |-> rows,
             res |-> ApptResponse("setStatus", 0, id, status, code, message)]
    IN
    IF ~Truthy(status) THEN unchanged(400, "Status is required")
    ELSE IF ~includesStatus(status) THEN unchanged(400, "Invalid status")
    ELSE IF ~EnumOk(status) THEN unchanged(500, "Server error")
    ELSE [rows |-> { IF r.id = id THEN [r EXCEPT !.status = status.s] ELSE r : r \in rows },
          res |-> ApptResponse("setStatus", 0, id, status, 200,
                               "Appointment status updated successfully")]

OrderPrefix == "appointment_"

\* The bodies of the payment webhook; order_id is cut into the prefix and
\* the rest.
WebhookBodies ==
    [ payment_id : { Undefined, Str("pi_1") },
      status : { Str("completed"), Str("failed") },
      order_id : { Undefined } \cup { Str(<<OrderPrefix, DigitChars[id + 1]>>) : id \in 1 .. MaxApptId } ]

\* order_id.replace('appointment_', ''): the first occurrence is taken out
withoutPrefix(order_id) ==
    LET at == { i \in 1 .. Len(order_id) : order_id[i] = OrderPrefix } IN
    IF at = {} THEN order_id
    ELSE LET i == CHOOSE j \in at : \A k \in at : j <= k
         IN  SubSeq(order_id, 1, i - 1) \o SubSeq(order_id, i + 1, Len(order_id))

\* POST /api/payments/ziina/webhook
ziinaWebhook(rows, body) ==
    IF ~BindOk(<<body.status, body.payment_id>>)
    THEN [rows |-> rows,
          res |-> ApptResponse("webhook", 0, 0, body, 500, "Internal server error")]
    ELSE IF body.status.s = "completed" /\ Truthy(body.order_id)
    THEN LET appointmentId == withoutPrefix(body.order_id.s) IN
         [rows |-> { IF r.id = SqlInt(appointmentId)
                     THEN [r EXCEPT !.status = "confirmed"] ELSE r : r \in rows },
          res |-> ApptResponse("webhook", 0, SqlInt(appointmentId), body, 200,
                               "Webhook processed successfully")]
    ELSE [rows |-> rows,
          res |-> ApptResponse("webhook", 0, 0, body, 200, "Webhook processed successfully")]

ApptIds == 1 .. MaxApptId

\* POST /api/user/appointments up to the await of its INSERT
CreateAppointmentStart(user, body) ==
    /\ apptRes = NoRequest
    /\ LET checked == createAppointment_validate(user, body) IN
       IF checked.ok
       THEN /\ BagCardinality(apptReq) < MaxCreates
            /\ apptReq' = apptReq (+) SetToBag({checked.call})
            /\ UNCHANGED apptRes
       ELSE /\ apptRes' = checked.res
            /\ UNCHANGED apptReq
    /\ UNCHANGED <<appts, nextApptId, notApptVars>>

\* its INSERT is executed and the response built
CreateAppointmentInsert(call) ==
    /\ apptRes = NoRequest
    /\ BagIn(call, apptReq)
    /\ LET done == createAppointment_insert(appts, nextApptId, call) IN
       /\ done.nextId <= MaxApptId + 1
       /\ appts' = done.rows
       /\ nextApptId' = done.nextId
       /\ apptRes' = done.res
    /\ apptReq' = apptReq (-) SetToBag({call})
    /\ UNCHANGED notApptVars

UpdateAppointment(id, user, body) ==
    /\ apptRes = NoRequest
    /\ LET done == updateAppointment(appts, id, user, body) IN
       /\ appts' = done.rows
       /\ apptRes' = done.res
    /\ UNCHANGED <<nextApptId, apptReq, notApptVars>>

SetStatus(id, status) ==
    /\ apptRes = NoRequest
    /\ LET done == setStatus(appts, id, status) IN
       /\ appts' = done.rows
       /\ apptRes' = done.res
    /\ UNCHANGED <<nextApptId, apptReq, notApptVars>>

ZiinaWebhook(body) ==
    /\ apptRes = NoRequest
    /\ LET done == ziinaWebhook(appts, body) IN
       /\ appts' = done.rows
       /\ apptRes' = done.res
    /\ UNCHANGED <<nextApptId, apptReq, notApptVars>>

SendApptResponse ==
    /\ apptRes # NoRequest
    /\ apptRes' = NoRequest
    /\ UNCHANGED <<appts, nextApptId, apptReq, notApptVars>>

InitAppts ==
    /\ appts = {}
    /\ nextApptId = 1
    /\ apptReq = EmptyBag
    /\ apptRes = NoRequest

NextAppts ==
    \/ \E user \in Bookers, body \in AppointmentBodies : CreateAppointmentStart(user, body)
    \/ \E call \in BagToSet(apptReq) : CreateAppointmentInsert(call)
    \/ \E id \in ApptIds, user \in Callers, body \in PatchBodies : UpdateAppointment(id, user, body)
    \/ \E id \in ApptIds, status \in StatusBodies : SetStatus(id, status)
    \/ \E body \in WebhookBodies : ZiinaWebhook(body)
    \/ SendApptResponse

-----------------------------------------------------------------------------
(* Booking next to the registry: appointments are created while the admin
   opens and closes the slot and the date they are for *)

BookingBodies == { Given, [Given EXCEPT !.appointment_time = Str(TwoPmRange)] }

\* The slot 14:00-14:30 of the day of the bookings
BookedSlot ==
    [ start_time |-> Str(<<"1", "4", ":", "0", "0">>),
      end_time |-> Str(<<"1", "4", ":", "3", "0">>),
      is_available |-> Bool(TRUE), extra_price |-> Undefined,
      date |-> Given.appointment_date, service_category_id |-> Null ]

\* The day of the bookings, open for one appointment
BookedDate ==
    [ date |-> Given.appointment_date, is_available |-> Bool(TRUE),
      max_appointments |-> Num(1), service_category_id |-> Undefined ]

NextBooking ==
    \/ \E user \in Bookers, body \in BookingBodies : CreateAppointmentStart(user, body)
    \/ \E call \in BagToSet(apptReq) : CreateAppointmentInsert(call)
    \/ SendApptResponse
    \/ CreateTimeSlot(BookedSlot)
    \/ \E id \in SlotIds : DeleteTimeSlot(id)
    \/ SendResponse
    \/ CreateAvailableDate(BookedDate)
    \/ SendDateResponse

-----------------------------------------------------------------------------
(* The OTP login routes: POST /api/auth/verify-otp and POST /api/auth/register *)

\* The otp of a request body: the decimal string of code c.
OtpString(c) == [t |-> "string", otp |-> c]

\* !otp is false: the decimal string of a code is not empty.
otpGiven(otp) == otp.t # "undefined"

Emails == { <<"a">>, <<"b">> }

FullName == <<"n">>

\* The bodies of POST /api/auth/verify-otp: a phone and a code, or a body
\* that leaves the otp out.
VerifyBodies ==
    [phone : { Str(p) : p \in RawPhones },
     otp : { OtpString(c) : c \in SubmittedCodes }]
    \cup { [phone |-> Str(<<"5">>), otp |-> Undefined] }

\* The bodies of POST /api/auth/register in the OTP flow: isOtpVerified and no
\* password; one body leaves the email out, one is not of the OTP flow.
RegisterBodies ==
    [phone : { Str(p) : p \in RawPhones },
     fullName : {Str(FullName)},
     email : { Str(e) : e \in Emails },
     password : {Undefined},
     isOtpVerified : {Bool(TRUE)}]
    \cup { [phone |-> Str(<<"5">>), fullName |-> Str(FullName), email |-> Undefined,
            password |-> Undefined, isOtpVerified |-> Bool(TRUE)],
          [phone |-> Str(<<"5">>), fullName |-> Str(FullName), email |-> Str(<<"a">>),
            password |-> Undefined, isOtpVerified |-> Undefined] }

\* res.status(status).json({ message, isNewUser, user }) for the request
\* (op, body); user is the id of the user of the response, 0 when it has none.
AuthResponse(op, body, status, message, isNewUser, user) ==
    [op |-> op, body |-> body, status |-> status, message |-> message,
     isNewUser |-> isNewUser, user |-> user]

\* SELECT * FROM users WHERE phone = ?
usersByPhone(rows, phone) == { u \in rows : u.phone = phone.s }

\* SELECT id FROM users WHERE email = ?
usersByEmail(rows, email) == { u \in rows : u.email = email.s }

\* result.insertId of an INSERT INTO users: the AUTO_INCREMENT id; no handler
\* of the model deletes a user.
insertId(rows) == Cardinality(rows) + 1

\* POST /api/auth/verify-otp after verifyOTP(phone, otp) returned otpResult:
\* the lookup of the user and the response.  No statement of the handler writes
\* table users.
verifyOtpRoute(rows, body, otpResult) ==
    IF ~otpResult.success
    THEN [rows |-> rows,
          res |-> AuthResponse("verify-otp", body, 400, otpResult.message, FALSE, 0)]
    ELSE LET userRows == usersByPhone(rows, body.phone) IN
         IF userRows # {}
         THEN [rows |-> rows,
               res |-> AuthResponse("verify-otp", body, 200, "Login successful", FALSE,
                                    (CHOOSE u \in userRows : TRUE).id)]
         ELSE [rows |-> rows,
               res |-> AuthResponse("verify-otp", body, 200,
                                    "Phone verified, please complete registration",
                                    TRUE, 0)]

\* POST /api/auth/register
register(rows, body) ==
    IF ~Truthy(body.phone) \/ ~Truthy(body.fullName) \/ ~Truthy(body.email)
    THEN [rows |-> rows,
          res |-> AuthResponse("register", body, 400,
                               "Phone, name, and email are required", FALSE, 0)]
    ELSE IF ~Truthy(body.isOtpVerified) /\ ~Truthy(body.password)
    THEN [rows |-> rows,
          res |-> AuthResponse("register", body, 400,
                               "Password is required for non-OTP registration", FALSE, 0)]
    ELSE IF usersByPhone(rows, body.phone) # {}
    THEN [rows |-> rows,
          res |-> AuthResponse("register", body, 400,
                               "Phone number already registered", FALSE, 0)]
    ELSE IF usersByEmail(rows, body.email) # {}
    THEN [rows |-> rows,
          res |-> AuthResponse("register", body, 400, "Email already registered", FALSE, 0)]
    ELSE [rows |-> rows \cup {[id |-> insertId(rows), phone |-> body.phone.s,
                               email |-> body.email.s]},
          res |-> AuthResponse("register", body, 201, "User registered successfully",
                               FALSE, insertId(rows))]

\* A request to POST /api/auth/verify-otp, handled to its response: the check
\* of the body, the call of verifyOTP on the store, the lookup of the user.
VerifyOtpRoute(body) ==
    /\ authRes = NoRequest
    /\ IF ~Truthy(body.phone) \/ ~otpGiven(body.otp)
       THEN /\ authRes' = AuthResponse("verify-otp", body, 400,
                                       "Phone number and OTP are required", FALSE, 0)
            /\ UNCHANGED <<otpStorage, otpRes, users>>
       ELSE LET got == verifyOTP(otpStorage, body.phone.s, body.otp.otp, now)
                key == formatPhone(body.phone.s)
                done == verifyOtpRoute(users, body, got.value)
            IN  /\ otpStorage' = got.storage
                /\ otpRes' = VerifyReturn(key,
                                MapHas(otpStorage, key) /\ otpStorage[key].otp = body.otp.otp,
                                got.value)
                /\ users' = done.rows
                /\ authRes' = done.res
    /\ UNCHANGED <<now, sendReq, notAuthVars>>

\* A request to POST /api/auth/register, handled to its response.
Register(body) ==
    /\ authRes = NoRequest
    /\ LET done == register(users, body) IN
       /\ users' = done.rows
       /\ authRes' = done.res
    /\ UNCHANGED <<otpVars, notAuthVars>>

SendAuthResponse ==
    /\ authRes # NoRequest
    /\ authRes' = NoRequest
    /\ UNCHANGED <<users, otpVars, notAuthVars>>

InitAuth ==
    /\ users = {}
    /\ authRes = NoRequest

\* The login flow: codes are sent by the dispatcher and submitted to the
\* verify route, users register, time passes.
NextAuth ==
    \/ \E phone \in RawPhones : SendStart(phone)
    \/ \E call \in Calls, outcome \in Outcomes : WhatsAppDone(call, outcome)
    \/ \E call \in Calls, outcome \in Outcomes : SmsDone(call, outcome)
    \/ \E body \in VerifyBodies : VerifyOtpRoute(body)
    \/ \E body \in RegisterBodies : Register(body)
    \/ SendAuthResponse
    \/ Tick

-----------------------------------------------------------------------------
(* POST /api/auth/send-otp: a code of its own sent through the dynamic Twilio
   configuration, then sendOTP of the OTP service *)

\* req.body.phone
SendOtpBodies == { Str(p) : p \in RawPhones } \cup { Undefined }

NoRoute == [pc |-> "none"]

\* sendSMS of the dynamic configuration once its delivery has settled; a
\* missing configuration or a rejected delivery is caught and returned.
sendDynamicOTP_result(outcome) ==
    IF outcome = "ok" THEN [success |-> TRUE] ELSE [success |-> FALSE]

\* The response of the route for the value sendOTP returned.
sendOtpRoute_response(result, dynamicConfig) ==
    IF result.success
    THEN [status |-> 200, message |-> result.message, success |-> TRUE,
          usingDynamicConfig |-> dynamicConfig]
    ELSE [status |-> 500, message |-> result.message, success |-> FALSE,
          usingDynamicConfig |-> FALSE]

\* The request up to its first suspension: the check of the body, the code of
\* the route, the await of sendDynamicOTP.
SendOtpRouteStart(body) ==
    /\ sendRoute = NoRoute
    /\ IF ~Truthy(body)
       THEN sendRoute' = [pc |-> "done", phone |-> body, status |-> 400,
                          message |-> "Phone number is required"]
       ELSE \E otp \in generateOTP :
            sendRoute' = [pc |-> "dynamic", phone |-> body, otp |-> otp]
    /\ UNCHANGED <<otpVars, notApartVars, catalogVars>>

\* sendDynamicOTP settles; in either case the route calls sendOTP(phone), which
\* runs up to its first suspension: the await inside sendWhatsAppOTP.
DynamicDone(outcome) ==
    /\ sendRoute.pc = "dynamic"
    /\ BagCardinality(sendReq) < MaxSends
    /\ LET smsResult == sendDynamicOTP_result(outcome)
           formattedPhone == formatPhone(sendRoute.phone.s)
       IN  /\ sendRoute' = [pc |-> "sendOTP", phone |-> sendRoute.phone,
                            otp |-> sendRoute.otp, dynamicConfig |-> smsResult.success,
                            n |-> otpRes.n]
           /\ \E otp \in generateOTP :
                /\ otpStorage' = storeOTP(otpStorage, formattedPhone, otp, now)
                /\ sendReq' = Suspend(sendReq,
                                      AwaitReq("whatsapp", formattedPhone, otp, NoWhatsApp))
    /\ UNCHANGED <<now, otpRes, notApartVars, catalogVars>>

\* sendOTP has returned to the route: the response.
SendOtpRouteReturn ==
    /\ sendRoute.pc = "sendOTP"
    /\ otpRes.op = "send" /\ otpRes.n # sendRoute.n
    /\ sendRoute' = [pc |-> "done", phone |-> sendRoute.phone, otp |-> sendRoute.otp,
                     dynamicConfig |-> sendRoute.dynamicConfig]
                    @@ sendOtpRoute_response(otpRes.value, sendRoute.dynamicConfig)
    /\ UNCHANGED <<otpVars, notApartVars, catalogVars>>

SendOtpRouteResponse ==
    /\ sendRoute.pc = "done"
    /\ sendRoute' = NoRoute
    /\ UNCHANGED <<otpVars, notApartVars, catalogVars>>

InitRoute == sendRoute = NoRoute

\* One request to the route at a time, its deliveries, and time.
NextRoute ==
    \/ \E body \in SendOtpBodies : SendOtpRouteStart(body)
    \/ \E outcome \in Outcomes : DynamicDone(outcome)
    \/ \E call \in Calls, outcome \in Outcomes : WhatsAppDone(call, outcome)
    \/ \E call \in Calls, outcome \in Outcomes : SmsDone(call, outcome)
    \/ SendOtpRouteReturn
    \/ SendOtpRouteResponse
    \/ Tick

-----------------------------------------------------------------------------
(* PUT /api/admin/service-items-category/:id/property-types: the property
   types of a category are replaced inside a transaction on a connection of
   its own *)

Categories == { 1, 2 }

\* The ids of table property_types.
PropertyTypes == { 1, 2 }

\* req.body.propertyTypeIds: left out, or an array of ids; 3 is the id of no
\* property type.
Array(a) == [t |-> "array", a |-> a]

PropertyTypeIdInputs == { Undefined, Array(<< >>), Array(<<2>>), Array(<<1, 1>>), Array(<<3>>) }

\* The Authorization header of a request: none, the token of a user, the
\* token of an admin.
Credentials == { "none", "user", "admin" }

\* propertyTypeIds && propertyTypeIds.length > 0
hasPropertyTypes(propertyTypeIds) ==
    propertyTypeIds.t # "undefined" /\ Len(propertyTypeIds.a) > 0

\* propertyTypeIds.map(typeId => [id, typeId])
insertValues(id, propertyTypeIds) ==
    { <<id, propertyTypeIds.a[i]>> : i \in 1 .. Len(propertyTypeIds.a) }

\* The INSERT of the values is accepted by the table: UNIQUE
\* (service_items_category_id, property_type_id) and the foreign key to
\* property_types; the rows of the category were deleted by the transaction.
insertAccepted(propertyTypeIds) ==
    /\ \A i, j \in 1 .. Len(propertyTypeIds.a) :
          i # j => propertyTypeIds.a[i] # propertyTypeIds.a[j]
    /\ \A i \in 1 .. Len(propertyTypeIds.a) : propertyTypeIds.a[i] \in PropertyTypes

\* A request suspended at an await of its transaction; deleted and inserted
\* say which statements the open transaction holds.
TxReq(pc, id, propertyTypeIds, caller, deleted, inserted) ==
    [pc |-> pc, id |-> id, propertyTypeIds |-> propertyTypeIds, caller |-> caller,
     deleted |-> deleted, inserted |-> inserted]

\* Where the handler goes when the DELETE has settled.
afterDelete(ok, propertyTypeIds) ==
    IF ~ok THEN "rollback"
    ELSE IF hasPropertyTypes(propertyTypeIds) THEN "insert" ELSE "commit"

\* Mutant: a failed INSERT is not noticed.
afterInsert_commitAnyway(ok) == "commit"

\* Where the handler goes when the INSERT has settled.
afterInsert(ok) == IF ok THEN "commit" ELSE "rollback"

\* The committed rows once the transaction of the request commits.
committed(rows, tx) ==
    LET kept == IF tx.deleted THEN { r \in rows : r[1] # tx.id } ELSE rows
    IN  IF tx.inserted THEN kept \cup insertValues(tx.id, tx.propertyTypeIds) ELSE kept

\* res.json / res.status(500).json of the request
CatResponse(tx, status, message) ==
    [op |-> "replace", id |-> tx.id, propertyTypeIds |-> tx.propertyTypeIds,
     status |-> status, message |-> message]

Updated == "Property types updated successfully"

Failed == "Failed to update property types"

TxCalls == BagToSet(txReq)

\* The request up to `await connection.beginTransaction()`: the connection is
\* checked out when the pool has one, or getConnection rejects.  No header
\* of the request is read.
ReplaceStart(id, propertyTypeIds, caller, outcome) ==
    /\ BagCardinality(txReq) < MaxTx
    /\ checkedOut < MaxConnections
    /\ LET tx == TxReq("begin", id, propertyTypeIds, caller, FALSE, FALSE) IN
       IF outcome = "ok"
       THEN /\ checkedOut' = checkedOut + 1
            /\ txReq' = txReq (+) SetToBag({tx})
            /\ UNCHANGED catRes
       ELSE /\ catRes = NoRequest
            /\ catRes' = CatResponse(tx, 500, Failed)
            /\ UNCHANGED <<checkedOut, txReq>>
    /\ UNCHANGED <<assoc, otpVars, notApartVars, routeVars>>

\* beginTransaction settles.  It is awaited outside the try whose finally
\* releases the connection: when it rejects, the outer catch answers.
BeginDone(tx, outcome) ==
    /\ BagIn(tx, txReq) /\ tx.pc = "begin"
    /\ IF outcome = "ok"
       THEN /\ txReq' = (txReq (-) SetToBag({tx})) (+) SetToBag({[tx EXCEPT !.pc = "delete"]})
            /\ UNCHANGED catRes
       ELSE /\ catRes = NoRequest
            /\ catRes' = CatResponse(tx, 500, Failed)
            /\ txReq' = txReq (-) SetToBag({tx})
    /\ UNCHANGED <<assoc, checkedOut, otpVars, notApartVars, routeVars>>

\* The DELETE of the category's rows settles.
DeleteDone(tx, outcome) ==
    /\ BagIn(tx, txReq) /\ tx.pc = "delete"
    /\ txReq' = (txReq (-) SetToBag({tx})) (+)
                SetToBag({[tx EXCEPT !.pc = afterDelete(outcome = "ok", tx.propertyTypeIds),
                                     !.deleted = (outcome = "ok")]})
    /\ UNCHANGED <<assoc, checkedOut, catRes, otpVars, notApartVars, routeVars>>

\* The INSERT of the new rows settles.
InsertDone(tx, outcome) ==
    /\ BagIn(tx, txReq) /\ tx.pc = "insert"
    /\ LET ok == outcome = "ok" /\ insertAccepted(tx.propertyTypeIds) IN
       txReq' = (txReq (-) SetToBag({tx})) (+)
                SetToBag({[tx EXCEPT !.pc = afterInsert(ok), !.inserted = ok]})
    /\ UNCHANGED <<assoc, checkedOut, catRes, otpVars, notApartVars, routeVars>>

\* The commit settles: the statements of the transaction take effect and the
\* request is answered, or the handler goes on to roll back.
CommitDone(tx, outcome) ==
    /\ BagIn(tx, txReq) /\ tx.pc = "commit"
    /\ IF outcome = "ok"
       THEN /\ catRes = NoRequest
            /\ assoc' = committed(assoc, tx)
            /\ catRes' = CatResponse(tx, 200, Updated)
            /\ txReq' = txReq (-) SetToBag({tx})
            /\ checkedOut' = checkedOut - 1
       ELSE /\ txReq' = (txReq (-) SetToBag({tx})) (+) SetToBag({[tx EXCEPT !.pc = "rollback"]})
            /\ UNCHANGED <<assoc, catRes, checkedOut>>
    /\ UNCHANGED <<otpVars, notApartVars, routeVars>>

\* The rollback settles; when it rejects the connection is lost and the server
\* discards the transaction.  Either way the finally releases the connection
\* and the outer catch answers.
RollbackDone(tx, outcome) ==
    /\ BagIn(tx, txReq) /\ tx.pc = "rollback"
    /\ catRes = NoRequest
    /\ catRes' = CatResponse(tx, 500, Failed)
    /\ txReq' = txReq (-) SetToBag({tx})
    /\ checkedOut' = checkedOut - 1
    /\ UNCHANGED <<assoc, otpVars, notApartVars, routeVars>>

SendCatResponse ==
    /\ catRes # NoRequest
    /\ catRes' = NoRequest
    /\ UNCHANGED <<assoc, txReq, checkedOut, otpVars, notApartVars, routeVars>>

\* Category 1 has property type 1.
InitCatalog ==
    /\ assoc = { <<1, 1>> }
    /\ txReq = EmptyBag
    /\ checkedOut = 0
    /\ catRes = NoRequest

NextCatalog ==
    \/ \E id \in Categories, propertyTypeIds \in PropertyTypeIdInputs,
          caller \in Credentials, outcome \in Outcomes :
            ReplaceStart(id, propertyTypeIds, caller, outcome)
    \/ \E tx \in TxCalls, outcome \in Outcomes : BeginDone(tx, outcome)
    \/ \E tx \in TxCalls, outcome \in Outcomes : DeleteDone(tx, outcome)
    \/ \E tx \in TxCalls, outcome \in Outcomes : InsertDone(tx, outcome)
    \/ \E tx \in TxCalls, outcome \in Outcomes : CommitDone(tx, outcome)
    \/ \E tx \in TxCalls, outcome \in Outcomes : RollbackDone(tx, outcome)
    \/ SendCatResponse

-----------------------------------------------------------------------------
(* The appointment date from POST /api/user/appointments to the table and to
   GET /api/user/appointments.  An instant is the number of hours since the
   start, in UTC, of the day before the first day of TripDays. *)

TripDays ==
    <<"2025-03-07", "2025-03-08", "2025-03-09", "2025-03-10", "2025-03-11", "2025-03-12">>

\* The days a caller asks for.
AskedDays == { 3, 4, 5 }

\* Hours east of UTC: of the server's process, of a caller's date string.
Offsets == { -5, 0, 4 }

HoursOfDay == 0 .. 23

\* The appointment_date of a body: 'YYYY-MM-DD'; 'YYYY-MM-DDTHH:00:00';
\* 'YYYY-MM-DDTHH:00:00+hh:00' (Z when the offset is 0); words that are no date.
DateStrings ==
    [kind : {"day"}, day : AskedDays]
      \cup [kind : {"local"}, day : AskedDays, hour : HoursOfDay]
      \cup [kind : {"offset"}, day : AskedDays, hour : HoursOfDay, offset : Offsets]
      \cup [kind : {"words"}]

\* new Date(appointment_date).getTime() in a process whose zone is tz hours
\* east of UTC: a date alone is the start of the day in UTC, a date with a time
\* is local time, a date with a time and an offset is that instant.
dateGetTime(appointment_date, tz) ==
    CASE appointment_date.kind = "day" -> appointment_date.day * 24
      [] appointment_date.kind = "local" ->
            appointment_date.day * 24 + appointment_date.hour - tz
      [] appointment_date.kind = "offset" ->
            appointment_date.day * 24 + appointment_date.hour - appointment_date.offset
      [] OTHER -> NaN

\* dateObj.toISOString().split('T')[0]: the day of the instant in UTC
toISODate(instant) == TripDays[instant \div 24]

\* The Date the driver makes of a DATE column: the start of that day in the
\* zone of the process.
columnToDate(day, tz) == day * 24 - tz

DayOf(name) == CHOOSE d \in 1 .. Len(TripDays) : TripDays[d] = name

\* The appointment_date of the body through the handler, the table and the
\* JSON of the listing.
dateTrip(appointment_date, tz) ==
    LET instant == dateGetTime(appointment_date, tz) IN
    IF instant = NaN
    THEN [called |-> TRUE, appointment_date |-> appointment_date, tz |-> tz,
          status |-> 400, stored |-> "", listed |-> ""]
    ELSE LET formatted == toISODate(instant) IN
         [called |-> TRUE, appointment_date |-> appointment_date, tz |-> tz,
          status |-> 201, stored |-> formatted,
          listed |-> toISODate(columnToDate(DayOf(formatted), tz))]

NoTrip == [called |-> FALSE]

\* An appointment is created with the date and listed, on a server in zone tz.
DateTrip(appointment_date, tz) ==
    /\ ~tripRes.called
    /\ tripRes' = dateTrip(appointment_date, tz)
    /\ UNCHANGED notTripVars

TripUsed ==
    /\ tripRes.called
    /\ tripRes' = NoTrip
    /\ UNCHANGED notTripVars

InitTrip == tripRes = NoTrip

NextTrip ==
    \/ \E appointment_date \in DateStrings, tz \in Offsets : DateTrip(appointment_date, tz)
    \/ TripUsed

-----------------------------------------------------------------------------
(* Specifications *)

Init == InitOtp /\ InitSlots /\ InitDates /\ InitTime /\ InitAppts /\ InitAuth /\ InitRoute /\ InitCatalog /\ InitTrip

\* The OTP service alone.
SpecOtp == Init /\ [][NextOtp]_vars

\* The time-slot handlers alone.
SpecSlots == Init /\ [][NextSlots]_vars

\* The available-date handlers alone.
SpecDates == Init /\ [][NextDates]_vars

\* The calls of extractStartTime.
SpecTime == Init /\ [][NextTime]_vars

\* The appointment handlers and the payment webhook.
SpecAppts == Init /\ [][NextAppts]_vars

\* Bookings while the registry changes.
SpecBooking == Init /\ [][NextBooking]_vars

\* Concurrent creations of time slots.
SpecSlotRace == Init /\ [][NextSlotRace]_vars

\* Requests to the send-otp route.
SpecRoute == Init /\ [][NextRoute]_vars

\* Replacements of the property types of the categories.
SpecCatalog == Init /\ [][NextCatalog]_vars

\* Appointment dates from the request to the listing.
SpecTrip == Init /\ [][NextTrip]_vars

\* The OTP login flow.
SpecAuth == Init /\ [][NextAuth]_vars

\* The OTP service while its interval timer keeps running and time passes.
SpecSweep == Init /\ [][NextSweep]_vars /\ WF_vars(Sweep) /\ WF_vars(TickSwept)

-----
(* Claims about the OTP store and dispatcher *)

FiveMinutes == 5 * 60 * 1000

\* '+' prepended unless the phone already starts with '+'
NormalizedKey(p) == IF Len(p) >= 1 /\ Head(p) = "+" THEN p ELSE <<"+">> \o p

\* The step is the return of a sendOTP call / of a verifyOTP call.
SendReturns == otpRes' # otpRes /\ otpRes'.op = "send"

\* The step wrote, under key k, a fresh entry whose code is the one handed to
\* the channel of a call now awaiting delivery, replacing what was there and
\* touching no other key.
WrittenFresh(k) ==
    /\ DOMAIN otpStorage' = (DOMAIN otpStorage) \cup {k}
    /\ otpStorage'[k].attempts = 0
    /\ otpStorage'[k].expiresAt = now + FiveMinutes
    /\ \E c \in BagToSet(sendReq') :
          /\ c.formattedPhone = k
          /\ c.otp = otpStorage'[k].otp
          /\ CopiesIn(c, sendReq') > CopiesIn(c, sendReq)
    /\ \A j \in (DOMAIN otpStorage) \ {k} : otpStorage'[j] = otpStorage[j]

\* C1 (as stated): whenever sendOTP(p) returns success, the store holds an
\* entry under the normalized key of p with attempts = 0.
C1_Original ==
    [][ (SendReturns /\ otpRes'.value.success) =>
          LET k == otpRes'.formattedPhone IN
          /\ MapHas(otpStorage', k)
          /\ otpStorage'[k].attempts = 0 ]_vars

\* C1 (amended): every channel attempt of sendOTP(p) writes, before its
\* delivery starts, one entry under the normalized key of p with attempts = 0
\* and expiresAt = time of the write + 5 minutes, replacing any earlier entry
\* and its attempts count; the return of sendOTP itself leaves the store as
\* it is.
C1_Amended ==
    [][ /\ \A phone \in RawPhones :
              SendStart(phone) => WrittenFresh(NormalizedKey(phone))
        /\ \A call \in Calls :
              WhatsAppDone(call, "reject") => WrittenFresh(call.formattedPhone)
        /\ SendReturns => otpStorage' = otpStorage ]_vars

\* sendOTP has just returned success and the entry it wrote is in the store.
C1_Witness ==
    /\ otpRes.op = "send"
    /\ otpRes.value.success
    /\ MapHas(otpStorage, otpRes.formattedPhone)
    /\ otpStorage[otpRes.formattedPhone].attempts = 0
    /\ otpStorage[otpRes.formattedPhone].expiresAt = now + FiveMinutes

\* The step is a store write of some sendOTP call.
IsSendWrite ==
    \/ \E phone \in RawPhones : SendStart(phone)
    \/ \E call \in Calls : WhatsAppDone(call, "reject")

\* C2: verifyOTP with the stored code of an unexpired entry with attempts < 3
\* succeeds and deletes the entry; verifyOTP succeeds in no other case; with
\* no entry it fails with NotFound and changes nothing; and an entry comes
\* into being only by the store write of a send.  So a code verifies at most
\* once.
C2_VerifyOnce ==
    [][ /\ \A phone \in RawPhones, code \in SubmittedCodes :
              Verify(phone, code) =>
                LET k == NormalizedKey(phone)
                    live == /\ MapHas(otpStorage, k)
                            /\ now <= otpStorage[k].expiresAt
                            /\ otpStorage[k].attempts < 3
                            /\ otpStorage[k].otp = code
                IN  /\ otpRes'.value.success <=> live
                    /\ otpRes'.value.success => ~MapHas(otpStorage', k)
                    /\ ~MapHas(otpStorage, k) =>
                          /\ otpRes'.value.message = "OTP not found or expired"
                          /\ otpStorage' = otpStorage
        /\ \A k \in DOMAIN otpStorage' : ~MapHas(otpStorage, k) => IsSendWrite ]_vars

\* verifyOTP has just succeeded and its entry is gone.
C2_Witness ==
    /\ otpRes.op = "verify"
    /\ otpRes.value.success
    /\ otpRes.matched
    /\ ~MapHas(otpStorage, otpRes.formattedPhone)

\* C3: on an unexpired entry with attempts = k - 1 < 3 a wrong code fails
\* with Mismatch, raises attempts to k, reports 3 - k remaining and leaves
\* code and expiresAt alone; on an unexpired entry with attempts = 3 any code,
\* the stored one included, fails with AttemptsExceeded and deletes the entry.
\* attempts is 0 on a fresh entry and only a Mismatch changes it, by one.
C3_AttemptLimit ==
    [][ /\ \A phone \in RawPhones, code \in SubmittedCodes :
              Verify(phone, code) =>
                LET k == NormalizedKey(phone) IN
                (MapHas(otpStorage, k) /\ now <= otpStorage[k].expiresAt) =>
                  LET e == otpStorage[k] IN
                  /\ (e.attempts < 3 /\ e.otp # code) =>
                        /\ otpRes'.value.message = "Invalid OTP"
                        /\ otpRes'.value.remaining = 3 - (e.attempts + 1)
                        /\ MapHas(otpStorage', k)
                        /\ otpStorage'[k] = [otp |-> e.otp, expiresAt |-> e.expiresAt,
                                            attempts |-> e.attempts + 1]
                  /\ e.attempts = 3 =>
                        /\ otpRes'.value.message = "Maximum verification attempts exceeded"
                        /\ ~otpRes'.value.success
                        /\ ~MapHas(otpStorage', k)
        /\ \A k \in DOMAIN otpStorage' :
              /\ otpStorage'[k].attempts \in 0 .. 3
              /\ (MapHas(otpStorage, k) /\ otpStorage'[k].attempts # otpStorage[k].attempts) =>
                    \/ IsSendWrite /\ otpStorage'[k].attempts = 0
                    \/ /\ otpRes' # otpRes
                       /\ otpRes'.op = "verify"
                       /\ otpRes'.value.message = "Invalid OTP"
                       /\ otpStorage'[k].attempts = otpStorage[k].attempts + 1 ]_vars

\* The fourth call after three wrong ones: AttemptsExceeded although the
\* submitted code was the stored one.
C3_Witness ==
    /\ otpRes.op = "verify"
    /\ otpRes.value.message = "Maximum verification attempts exceeded"
    /\ otpRes.matched
    /\ ~MapHas(otpStorage, otpRes.formattedPhone)

\* C4: verifyOTP on an entry fails with Expired exactly when now > expiresAt,
\* whatever the submitted code and the attempts count, and then deletes the
\* entry; at now = expiresAt the entry is still live.
C4_ExpiryFirst ==
    [][ \A phone \in RawPhones, code \in SubmittedCodes :
          Verify(phone, code) =>
            LET k == NormalizedKey(phone) IN
            MapHas(otpStorage, k) =>
              /\ (otpRes'.value.message = "OTP has expired") <=> (now > otpStorage[k].expiresAt)
              /\ now > otpStorage[k].expiresAt =>
                    /\ ~otpRes'.value.success
                    /\ ~MapHas(otpStorage', k) ]_vars

\* An expired entry was refused although the submitted code was the stored one.
C4_Witness ==
    /\ otpRes.op = "verify"
    /\ otpRes.value.message = "OTP has expired"
    /\ otpRes.matched
    /\ ~MapHas(otpStorage, otpRes.formattedPhone)

\* C5: a call awaits the SMS channel only after its own WhatsApp attempt has
\* failed; a WhatsApp success is returned at once as the whatsapp outcome and
\* starts no SMS attempt; an SMS success is returned as sms marked as
\* fallback; when both fail the returned failure carries both errors; and a
\* sendOTP call always completes by returning a value, never by throwing.
C5_Fallback ==
    [][ /\ \A c \in BagToSet(sendReq') :
              c.pc = "sms" => ~c.whatsappResult.success /\ c.whatsappResult.method = "whatsapp"
        /\ \A call \in Calls :
              /\ WhatsAppDone(call, "ok") =>
                    /\ otpRes'.value.success
                    /\ otpRes'.value.method = "whatsapp"
                    /\ sendReq' = sendReq (-) SetToBag({call})
                    /\ otpStorage' = otpStorage
              /\ WhatsAppDone(call, "reject") =>
                    /\ otpRes' = otpRes
                    /\ \E c \in BagToSet(sendReq') :
                          c.pc = "sms" /\ c.formattedPhone = call.formattedPhone
              /\ SmsDone(call, "ok") =>
                    /\ otpRes'.value.success
                    /\ otpRes'.value.method = "sms"
                    /\ otpRes'.value.fallbackUsed
              /\ SmsDone(call, "reject") =>
                    /\ ~otpRes'.value.success
                    /\ otpRes'.value.whatsappError = "Failed to send WhatsApp OTP"
                    /\ otpRes'.value.smsError = "Failed to send SMS OTP"
        /\ SendReturns => otpRes'.how = "return" ]_vars

\* Both channels failed and sendOTP returned the combined failure.
C5_Witness ==
    /\ otpRes.op = "send"
    /\ otpRes.how = "return"
    /\ ~otpRes.value.success
    /\ otpRes.value.message = "Failed to send OTP via WhatsApp and SMS"

-----------------------------------------------------------------------------
(* Claims about the time slots *)

\* The reference rule: [s1,e1) and [s2,e2) overlap iff s1 < e2 and s2 < e1.
RefOverlap(s1, e1, s2, e2) == s1 < e2 /\ s2 < e1

Proper(r) == r.start_time < r.end_time

\* same category id, or both with no category
SameScope(c1, c2) == c1 = c2

\* The step handles a create / an update request.
CreateStep == slotRes = NoRequest /\ slotRes'.op = "create"

UpdateStep == slotRes = NoRequest /\ slotRes'.op = "update"

\* The body gives both times as HH:MM with two-digit hours, start before end,
\* and every other field of a new slot.
PlainInterval(body) ==
    /\ body.start_time.t = "string" /\ Len(body.start_time.s) = 5
    /\ body.end_time.t = "string" /\ Len(body.end_time.s) = 5
    /\ ToTime(body.start_time.s) < ToTime(body.end_time.s)
    /\ body.date.t = "string"
    /\ body.is_available.t = "boolean"
    /\ body.service_category_id.t # "undefined"

\* The available rows on the body's date and in its category scope that the
\* reference rule says overlap the body's interval.
RefConflicts(rows, body) ==
    { r \in rows :
        /\ r.is_available
        /\ r.date = body.date.s
        /\ SameScope(r.service_category_id, body.service_category_id)
        /\ RefOverlap(r.start_time, r.end_time,
                      ToTime(body.start_time.s), ToTime(body.end_time.s)) }

\* The row a successful create of the body stores under the id.
NewRow(id, body) ==
    [id |-> id, start_time |-> ToTime(body.start_time.s),
     end_time |-> ToTime(body.end_time.s), is_available |-> body.is_available.b,
     extra_price |-> 0, date |-> body.date.s,
     service_category_id |-> body.service_category_id]

\* C6: no two available slots on the same date and in the same category scope
\* overlap (stated for slots that are proper intervals).
C6_NoOverlap ==
    \A r1 \in slots, r2 \in slots :
        ( /\ r1.id # r2.id
          /\ r1.is_available /\ r2.is_available
          /\ r1.date = r2.date
          /\ SameScope(r1.service_category_id, r2.service_category_id)
          /\ Proper(r1) /\ Proper(r2) )
        => ~RefOverlap(r1.start_time, r1.end_time, r2.start_time, r2.end_time)

QuarterHours == { 9 * 60 + 15 * i : i \in 0 .. 5 }

\* C7: the three sub-conditions of the overlap query agree with the reference
\* rule on every pair of proper intervals; accordingly a create of a proper
\* interval, among proper slots, is rejected with the conflict error and
\* stores nothing exactly when an available slot on its date and in its
\* category scope overlaps it by the reference rule, and an interval that
\* conflicts with none (for instance one that only touches a slot) and whose
\* times are not those of a stored slot of that date is accepted and stored.
C7_OverlapRule ==
    /\ \A s1 \in QuarterHours, e1 \in QuarterHours, s2 \in QuarterHours, e2 \in QuarterHours :
          (s1 < e1 /\ s2 < e2) => (SqlOverlap(s1, e1, s2, e2) <=> RefOverlap(s1, e1, s2, e2))
    /\ [][ (CreateStep /\ PlainInterval(slotRes'.body) /\ \A r \in slots : Proper(r)) =>
             LET body == slotRes'.body
                 conflict == RefConflicts(slots, body) # {}
                 rejected ==
                    /\ slotRes'.status = 400
                    /\ slotRes'.message = "Time slot overlaps with existing available slot"
             IN  /\ rejected <=> conflict
                 /\ rejected => slots' = slots
                 /\ (~conflict /\ UniqueTimeSlotOk(slots, NewRow(nextSlotId, body))) =>
                       /\ slotRes'.status = 201
                       /\ slots' = slots \cup {NewRow(nextSlotId, body)} ]_vars

\* A create was rejected with the conflict error because an available slot of
\* its date and scope overlaps it, and nothing was stored for it.
C7_Witness ==
    /\ slotRes.op = "create"
    /\ slotRes.status = 400
    /\ slotRes.message = "Time slot overlaps with existing available slot"
    /\ PlainInterval(slotRes.body)
    /\ \E r \in slots :
          /\ r \in RefConflicts(slots, slotRes.body)
          /\ r.start_time # ToTime(slotRes.body.start_time.s)

\* C8: a create or update whose times pass the pattern check is rejected
\* with the validation error, storing nothing, exactly when the start is not
\* earlier than the end as a time of day; so every stored slot has
\* start_time < end_time.
C8_StartBeforeEnd ==
    [][ /\ \A r \in slots' : Proper(r)
        /\ ( /\ CreateStep
             /\ Truthy(slotRes'.body.start_time) /\ Truthy(slotRes'.body.end_time)
             /\ Truthy(slotRes'.body.date)
             /\ timeRegex(slotRes'.body.start_time.s)
             /\ timeRegex(slotRes'.body.end_time.s) ) =>
               ( (slotRes'.message = "End time must be after start time")
                   <=> ~(ToTime(slotRes'.body.start_time.s) < ToTime(slotRes'.body.end_time.s)) ) ]_vars

\* C9: a create of a proper interval with every field given is stored
\* successfully whenever no available slot on its date and in its category
\* scope overlaps it, whatever the slots of other scopes and the unavailable
\* slots are.
C9_ScopedToCategory ==
    [][ (CreateStep /\ PlainInterval(slotRes'.body) /\ \A r \in slots : Proper(r)) =>
          ( RefConflicts(slots, slotRes'.body) = {} =>
              /\ slotRes'.status = 201
              /\ slots' = slots \cup {NewRow(nextSlotId, slotRes'.body)} ) ]_vars

\* The field is absent from the partial: left out, or sent as null.
Absent(v) == v.t \in {"null", "undefined"}

\* C10: an update changes only the fields its body gives, every other field,
\* the category included, keeps its value; it is not rejected for overlapping
\* the slot's own interval; and a rejected update changes no slot.
C10_PartialUpdate ==
    [][ UpdateStep =>
          LET body == slotRes'.body
              id == slotRes'.id
          IN  /\ slotRes'.status # 200 => slots' = slots
              /\ slotRes'.message = "Time slot overlaps with existing available slot" =>
                    \E o \in slots : o.id # id /\ o.is_available
              /\ slotRes'.status = 200 =>
                    /\ \A o \in slots : o.id # id => o \in slots'
                    /\ \A r \in slots, q \in slots' :
                          (r.id = id /\ q.id = id) =>
                            /\ Absent(body.start_time) => q.start_time = r.start_time
                            /\ Absent(body.end_time) => q.end_time = r.end_time
                            /\ Absent(body.is_available) => q.is_available = r.is_available
                            /\ Absent(body.extra_price) => q.extra_price = r.extra_price
                            /\ Absent(body.service_category_id) =>
                                  q.service_category_id = r.service_category_id
                            /\ q.date = r.date ]_vars

-----------------------------------------------------------------------------
(* Claims about the listings and the available dates *)

\* The tri-state filter of the listings: categoryId left out asks for the
\* rows of every category, 'null' or '' for the rows of no category, an id
\* for the rows of that category.
AsksFor(categoryId, column) ==
    IF categoryId.t = "undefined" THEN TRUE
    ELSE IF categoryId.s = NullWord \/ categoryId.s = << >> THEN column = Null
    ELSE column = Num(DigitVal(categoryId.s[1]))

RangeOf(seq) == { seq[i] : i \in 1 .. Len(seq) }

\* C11: a listing of time slots returns, in ascending start_time order, the
\* available rows of the requested date that the tri-state category filter
\* asks for, a listing of dates the available rows from today on that the
\* filter asks for, and neither changes a stored row.
C11_TriStateFilter ==
    [][ /\ (slotRes = NoRequest /\ slotRes'.op = "list" /\ slotRes'.status = 200) =>
              LET query == slotRes'.query
                  rows == slotRes'.rows
              IN  /\ RangeOf(rows) =
                        { r \in slots : /\ r.is_available
                                        /\ r.date = query.date.s[1]
                                        /\ AsksFor(query.categoryId, r.service_category_id) }
                  /\ \A i \in 1 .. Len(rows), j \in 1 .. Len(rows) :
                        i < j => rows[i].start_time <= rows[j].start_time /\ rows[i] # rows[j]
                  /\ slots' = slots
        /\ (dateRes = NoRequest /\ dateRes'.op = "list") =>
              LET query == dateRes'.query
                  rows == dateRes'.rows
              IN  /\ RangeOf(rows) =
                        { r \in dates : /\ r.is_available
                                        /\ DateGeq(r.date, CURDATE)
                                        /\ AsksFor(query.categoryId, r.service_category_id) }
                  /\ dates' = dates ]_vars

\* The hour of the day that h o'clock AM or PM is.
Hour24(h, modifier) ==
    IF modifier = <<"A", "M">> THEN (IF h = 12 THEN 0 ELSE h)
    ELSE (IF h = 12 THEN 12 ELSE h + 12)

\* C13: extractStartTime returns a canonical HH:MM or HH:MM:SS unchanged, and
\* for a display range that starts at h:mm AM or PM it returns HH:mm:00 with
\* HH the hour of the day of the start, written with two digits.
C13_ExtractStartTime ==
    /\ timeRes.input.t = "string" /\ timeRes.input.s \in CanonicalTimes =>
          timeRes.output = timeRes.input
    /\ \A h \in ClockHours, m \in ClockMinutes, modifier \in Modifiers :
          ( /\ timeRes.input.t = "string"
            /\ timeRes.input.s = DisplayTime(h, m, modifier) \o <<" ", "-", " ">>
                                   \o DisplayTime(h, (m + 30) % 60, modifier) ) =>
            timeRes.output =
                Str(TwoDigits(Hour24(h, modifier)) \o <<":">> \o TwoDigits(m) \o <<":", "0", "0">>)

\* '12:15 PM - 12:45 PM' was converted, to '12:15:00'.
C13_Witness ==
    /\ timeRes.called
    /\ timeRes.input = Str(<<"1", "2", ":", "1", "5", " ", "P", "M", " ", "-", " ",
                             "1", "2", ":", "4", "5", " ", "P", "M">>)
    /\ timeRes.output = Str(<<"1", "2", ":", "1", "5", ":", "0", "0">>)

-----------------------------------------------------------------------------
(* Claims about the appointments *)

FiveStatuses == { "pending", "confirmed", "in-progress", "completed", "cancelled" }

RequiredFields(body) ==
    << body.service, body.appointment_date, body.appointment_time, body.location, body.price >>

AllRequiredPresent(body) == \A i \in 1 .. 5 : ~Absent(RequiredFields(body)[i])

\* The step answers a request of the kind op.
Answers(op) == apptRes = NoRequest /\ apptRes' # NoRequest /\ apptRes'.op = op

C14_StatusDomain ==
    [][ /\ \A r \in appts' : r.status \in FiveStatuses
        /\ (Answers("create") /\ apptRes'.status = 201 /\ Absent(apptRes'.body.status)) =>
              \E r \in appts' \ appts : r.id = apptRes'.id /\ r.status = "pending"
        /\ ( /\ Answers("create") \/ Answers("update")
             /\ apptRes'.body.status.t = "string"
             /\ apptRes'.body.status.s \notin FiveStatuses ) =>
              appts' = appts ]_vars

\* A create with the status 'bogus' was answered, next to a stored
\* appointment that is pending.
C14_Witness ==
    /\ apptRes.op = "create"
    /\ apptRes.body.status = Str("bogus")
    /\ apptRes.status = 500
    /\ \E r \in appts : r.status = "pending"

\* C15: an update by a caller who does not own an appointment of that id, be
\* there none or one of another user, is answered 'not found or not
\* authorized' and changes nothing; an update by the owner leaves every other
\* appointment as it is and changes of its own appointment at most the fields
\* among status, date and time that the patch gives.
C15_UpdateFrame ==
    [][ Answers("update") =>
          LET id == apptRes'.id
              user == apptRes'.user
              body == apptRes'.body
              own == { r \in appts : r.id = id /\ r.user_id = user }
          IN  /\ own = {} =>
                    /\ apptRes'.status = 404
                    /\ apptRes'.message = "Appointment not found or not authorized"
                    /\ appts' = appts
              /\ \A r \in appts : r.id # id => r \in appts'
              /\ \A q \in appts' : \E r \in appts :
                    /\ q.id = r.id
                    /\ q.user_id = r.user_id /\ q.service = r.service
                    /\ q.location = r.location /\ q.price = r.price
                    /\ Absent(body.status) => q.status = r.status
                    /\ Absent(body.appointment_date) => q.appointment_date = r.appointment_date
                    /\ Absent(body.appointment_time) => q.appointment_time = r.appointment_time ]_vars

\* An update of an existing appointment by a caller who does not own it was
\* answered 404.
C15_Witness ==
    /\ apptRes.op = "update"
    /\ apptRes.status = 404
    /\ \E r \in appts : r.id = apptRes.id /\ r.user_id # apptRes.user

\* C16: setStatus without one of the five statuses is refused with 400 and
\* changes nothing; with one of the five it sets the appointment of that id
\* to it, whatever its status was, and changes nothing else.
C16_SetStatus ==
    [][ Answers("setStatus") =>
          LET status == apptRes'.body
              id == apptRes'.id
          IN  IF status.t = "string" /\ status.s \in FiveStatuses
              THEN /\ apptRes'.status = 200
                   /\ appts' = { IF r.id = id THEN [r EXCEPT !.status = status.s] ELSE r :
                                   r \in appts }
              ELSE /\ apptRes'.status = 400
                   /\ appts' = appts ]_vars

\* setStatus put an appointment to in-progress.
C16_Witness ==
    /\ apptRes.op = "setStatus"
    /\ apptRes.status = 200
    /\ apptRes.body = Str("in-progress")
    /\ \E r \in appts : r.id = apptRes.id /\ r.status = "in-progress"

\* The webhook body says completed for the order 'appointment_<id>'.
PaidOrder(body, id) ==
    /\ body.status = Str("completed")
    /\ body.order_id = Str(<<OrderPrefix, DigitChars[id + 1]>>)

\* C17: a webhook with status completed and order id 'appointment_<id>' sets
\* appointment <id> to confirmed whatever its status was and changes no other
\* appointment (so that a second delivery changes nothing more).
C17_WebhookConfirms ==
    [][ \A id \in ApptIds :
          (Answers("webhook") /\ PaidOrder(apptRes'.body, id)) =>
             appts' = { IF r.id = id THEN [r EXCEPT !.status = "confirmed"] ELSE r :
                          r \in appts } ]_vars

\* The body is one that createAppointment accepts.
Bookable(body) ==
    /\ AllRequiredPresent(body)
    /\ body.appointment_date.s \in DateInputs
    /\ Absent(body.status) \/ body.status.s \in FiveStatuses

\* C18: createAppointment leaves the registry as it is and does not depend
\* on it: every request with an acceptable body, also one handled while
\* another for the same date and time waits for its INSERT or after one was
\* stored, is answered 201 and adds one appointment with an id of its own,
\* whatever slots and dates the registry holds.
C18_NoCapacityCheck ==
    [][ /\ (Answers("create") /\ Bookable(apptRes'.body)) =>
              /\ apptRes'.status = 201
              /\ \E r \in appts' \ appts :
                    /\ appts' = appts \cup {r}
                    /\ r.id = apptRes'.id
                    /\ \A q \in appts : q.id # r.id
        /\ (apptRes' # apptRes \/ apptReq' # apptReq \/ appts' # appts) =>
              (slots' = slots /\ dates' = dates) ]_vars

\* Two appointments for the same date and time are stored, the second just
\* answered 201, while the registry holds no slot and the date is open for
\* one appointment.
C18_Witness ==
    /\ apptRes.op = "create" /\ apptRes.status = 201
    /\ \E r1 \in appts, r2 \in appts :
          /\ r1.id # r2.id
          /\ r1.appointment_date = r2.appointment_date
          /\ r1.appointment_time = r2.appointment_time
          /\ \E d \in dates : d.date = r1.appointment_date /\ d.max_appointments = 1
    /\ slots = {}

\* The category scope a body asks for: its category, or none.
ScopeOf(body) ==
    IF Absent(body.service_category_id) THEN Null ELSE body.service_category_id

\* C19: a createAvailableDate for a date and category scope that the registry
\* already holds is refused with the conflict error 'Date already exists',
\* not the generic server error, and adds no row.
C19_DuplicateDate ==
    [][ ( /\ dateRes = NoRequest /\ dateRes'.op = "create"
          /\ ~Absent(dateRes'.body.date)
          /\ \E r \in dates : /\ r.date = dateRes'.body.date.s
                              /\ SameScope(r.service_category_id, ScopeOf(dateRes'.body)) ) =>
            /\ dateRes'.status = 400
            /\ dateRes'.message = "Date already exists"
            /\ dates' = dates ]_vars

-----------------------------------------------------------------------------
(* Claims about the OTP login flow *)

\* The user rows of a phone, written with or without its leading '+'.
UsersOf(rows, phone) == { u \in rows : formatPhone(u.phone) = formatPhone(phone) }

\* The last call of the dispatcher was for the phone and reported success.
SendSucceeded(phone) ==
    /\ otpRes.op = "send"
    /\ otpRes.formattedPhone = formatPhone(phone)
    /\ otpRes.how = "return"
    /\ otpRes.value.success

\* C20: when the dispatcher has reported success for a phone that has no user
\* and the verify route then accepts the code submitted for that phone, a user
\* with that phone exists once the route has answered.
C20_VerifyCreatesUser ==
    [][ ( /\ authRes = NoRequest /\ authRes'.op = "verify-otp"
          /\ authRes'.status = 200
          /\ SendSucceeded(authRes'.body.phone.s)
          /\ UsersOf(users, authRes'.body.phone.s) = {} ) =>
            UsersOf(users', authRes'.body.phone.s) # {} ]_vars

-----------------------------------------------------------------------------
(* Further claims about the OTP store and dispatcher *)

\* The calls that the step suspends at the delivery of a channel.
HandedToChannel == { c \in BagToSet(sendReq') : CopiesIn(c, sendReq') > CopiesIn(c, sendReq) }

\* C24: whenever a code is handed to a channel, WhatsApp or SMS, the store
\* already holds that code for the phone, with attempts 0.
C24_StoreBeforeDelivery ==
    [][ \A c \in HandedToChannel :
            /\ MapHas(otpStorage', c.formattedPhone)
            /\ otpStorage'[c.formattedPhone].otp = c.otp
            /\ otpStorage'[c.formattedPhone].attempts = 0
            /\ otpStorage'[c.formattedPhone].expiresAt = now + OTP_TTL ]_vars

\* The SMS fallback of a call awaits its delivery, over an entry whose
\* attempts had been counted, and the store holds the code of the fallback.
C24_Witness ==
    \E c \in Calls :
        /\ c.pc = "sms"
        /\ MapHas(otpStorage, c.formattedPhone)
        /\ otpStorage[c.formattedPhone].otp = c.otp
        /\ otpStorage[c.formattedPhone].attempts = 0
        /\ otpRes.op = "verify" /\ ~otpRes.value.success

\* The last multiple of the sweep interval that the clock of the model reaches.
LastSweep == ((MaxTicks * TickMs) \div SWEEP_INTERVAL) * SWEEP_INTERVAL

\* The entries that expire before the last run of the sweep: a code and its
\* expiry.
EntryIds ==
    [otp : generateOTP,
     expiresAt : { x \in { i * TickMs + OTP_TTL : i \in 0 .. MaxTicks } : x < LastSweep }]

Holds(k, e) ==
    /\ MapHas(otpStorage, k)
    /\ otpStorage[k].otp = e.otp
    /\ otpStorage[k].expiresAt = e.expiresAt

\* The step changes the store and nothing else: a run of the sweep.
SweepRuns ==
    /\ otpStorage' # otpStorage
    /\ UNCHANGED <<now, sendReq, otpRes>>

\* C25: a run of the sweep removes exactly the entries with now > expiresAt and
\* leaves every other entry, with its code and attempts, as it was; and every
\* entry that expires before the last run of the sweep is eventually gone from
\* the store though no verify is made for its phone.
C25_SweepRemovesExpired ==
    /\ [][ SweepRuns =>
             /\ DOMAIN otpStorage' = { k \in DOMAIN otpStorage : ~(now > otpStorage[k].expiresAt) }
             /\ \A k \in DOMAIN otpStorage' : otpStorage'[k] = otpStorage[k] ]_vars
    /\ \A phone \in SweepPhones, e \in EntryIds :
          Holds(formatPhone(phone), e) ~> ~Holds(formatPhone(phone), e)

\* No verifyOTP or sendOTP call has returned; two sends are awaiting their
\* delivery; at the second run of the sweep the entry of the first is gone and
\* the entry of the other, not yet expired, is in the store.
C25_Witness ==
    /\ otpRes = NoResult
    /\ now = 2 * SWEEP_INTERVAL
    /\ \E c1 \in Calls, c2 \in Calls :
          /\ c1.pc = "whatsapp" /\ c2.pc = "whatsapp"
          /\ ~MapHas(otpStorage, c1.formattedPhone)
          /\ MapHas(otpStorage, c2.formattedPhone)
          /\ otpStorage[c2.formattedPhone].otp = c2.otp
          /\ otpStorage[c2.formattedPhone].expiresAt >= now

\* No sendOTP call for the key is awaiting a delivery after the step.
NoneInFlight(k) == \A c \in BagToSet(sendReq') : c.formattedPhone # k

\* C28: when no send for a phone is in flight, the code the store holds for it
\* is one that was delivered to the phone.  Stated for the first call that
\* returns at all: when it is a sendOTP that failed on both channels and no
\* other send for the phone is in flight, no code was ever delivered, and the
\* store holds no entry for the phone.
C28_StoredCodeWasDelivered ==
    [][ ( /\ otpRes = NoResult
          /\ SendReturns
          /\ ~otpRes'.value.success
          /\ NoneInFlight(otpRes'.formattedPhone) ) =>
            ~MapHas(otpStorage', otpRes'.formattedPhone) ]_vars

-----------------------------------------------------------------------------
(* Further claims about the appointments *)

\* C30: an update by the owner of the appointment succeeds for every patch
\* over status (one of the five), date and time, the patch that gives none of
\* them included; that patch leaves the appointments as they are.
C30_EveryPatchSucceeds ==
    [][ ( /\ Answers("update")
          /\ \E r \in appts : r.id = apptRes'.id /\ r.user_id = apptRes'.user
          /\ Absent(apptRes'.body.status) \/ apptRes'.body.status.s \in FiveStatuses ) =>
            /\ apptRes'.status = 200
            /\ ( /\ Absent(apptRes'.body.status)
                 /\ Absent(apptRes'.body.appointment_date)
                 /\ Absent(apptRes'.body.appointment_time) ) => appts' = appts ]_vars

-----------------------------------------------------------------------------
(* Further claims about the time slots *)

\* C27: a create that is stored as an available slot overlaps, by the
\* reference rule, no available slot that its date and category scope hold at
\* that moment, however the requests interleave (stated for slots that are
\* proper intervals).
C27_NoRaceOverlap ==
    [][ ( /\ CreateStep /\ slotRes'.status = 201
          /\ PlainInterval(slotRes'.body)
          /\ slotRes'.body.is_available.b ) =>
            { r \in RefConflicts(slots, slotRes'.body) : Proper(r) } = {} ]_vars

-----------------------------------------------------------------------------
(* Claims about the send-otp route *)

\* C29: when a request to the send-otp route reports success, the code that
\* was delivered to the phone through the dynamic configuration during the
\* request is the code the store holds for the phone.
C29_DeliveredIsStored ==
    [][ ( /\ sendRoute.pc = "sendOTP" /\ sendRoute'.pc = "done"
          /\ sendRoute'.success
          /\ sendRoute'.dynamicConfig ) =>
            /\ MapHas(otpStorage', formatPhone(sendRoute'.phone.s))
            /\ otpStorage'[formatPhone(sendRoute'.phone.s)].otp = sendRoute'.otp ]_vars

-----------------------------------------------------------------------------
(* Claims about the replacement of a category's property types *)

\* The associations of a category.
RowsOf(rows, id) == { r \in rows : r[1] = id }

\* The associations a request asks the category to have.
Requested(id, propertyTypeIds) ==
    IF propertyTypeIds.t = "undefined" THEN {}
    ELSE { <<id, propertyTypeIds.a[i]>> : i \in 1 .. Len(propertyTypeIds.a) }

\* The step answers a replacement.
ReplaceAnswered == catRes = NoRequest /\ catRes'.op = "replace"

\* C22: a replacement that is answered with success leaves the category with
\* exactly the requested associations and the other categories as they were;
\* one that is answered with a failure, wherever it failed, changes no
\* committed association; and the committed associations change in no other
\* step, so the state with the old associations deleted and the new ones
\* missing is never committed.
C22_AllOrNothing ==
    [][ /\ ReplaceAnswered =>
             IF catRes'.status = 200
             THEN /\ RowsOf(assoc', catRes'.id) = Requested(catRes'.id, catRes'.propertyTypeIds)
                  /\ assoc' \ RowsOf(assoc', catRes'.id) = assoc \ RowsOf(assoc, catRes'.id)
             ELSE assoc' = assoc
        /\ assoc' # assoc => ReplaceAnswered /\ catRes'.status = 200 ]_vars

\* Category 1, which had property type 1, has been given property type 2
\* alone, while a second replacement is inside its transaction.
C22_Witness ==
    /\ catRes.op = "replace" /\ catRes.status = 200
    /\ catRes.id = 1 /\ catRes.propertyTypeIds = Array(<<2>>)
    /\ assoc = { <<1, 2>> }
    /\ \E tx \in TxCalls : tx.id = 1 /\ tx.deleted /\ tx.pc = "rollback"

\* The requests that the step completes.
Completed == { tx \in TxCalls : CopiesIn(tx, txReq') < CopiesIn(tx, txReq) }

\* C23: the stored associations change only for a request that carries the
\* token of an admin.
C23_AdminOnly ==
    [][ assoc' # assoc => \A tx \in Completed : tx.caller = "admin" ]_vars

\* C26: every connection that is checked out belongs to a replacement in
\* flight: a request that has completed, on whatever path, has returned its
\* connection to the pool.
C26_ConnectionReleased == checkedOut = BagCardinality(txReq)

-----------------------------------------------------------------------------
(* Claims about the appointment date *)

\* C21: an appointment date that denotes a calendar day for the caller, be it
\* a day alone or a day with a time or with a time and a zone offset, is
\* stored as that day and listed as that day whatever the zone of the server;
\* a date that cannot be parsed is answered 400.
C21_DateRoundTrip ==
    tripRes.called =>
        IF tripRes.appointment_date.kind = "words"
        THEN tripRes.status = 400
        ELSE /\ tripRes.status = 201
             /\ tripRes.stored = TripDays[tripRes.appointment_date.day]
             /\ tripRes.listed = TripDays[tripRes.appointment_date.day]

====
